---- MODULE Spec2Model ----
(***************************************************************************)
(* Model of the long-video pipeline of MediaBot:                           *)
(*   src/long_video.py   LongVideoGenerator (segment loop, cleanup)        *)
(*   src/media_utils.py  process_image_to_video, wait_for_generation,      *)
(*                       get_latest_video                                  *)
(*   src/video_utils.py  extract_last_frame, concatenate_videos            *)
(* One generator runs generate_long_video again and again against one      *)
(* render server and one file system; files left behind by a run are       *)
(* still there when the next run starts.                                   *)
(***************************************************************************)
EXTENDS Integers, Sequences, FiniteSets, TLC

\* ---------------------------------------------------------------- bounds
MaxSegs == 2          \* longest segments_data list tried
MaxClock == 3         \* wall clock runs over 0..MaxClock seconds
MaxOutFiles == 1      \* most .mp4 files kept in the server's output dir
MaxRuns == 2          \* calls of generate_long_video made one after the other
MaxTimeout == 7       \* longest timeout given to wait_for_generation, seconds
MaxPairClock == 4     \* two concurrent requests: wall clock runs over 0..MaxPairClock

\* ------------------------------------------------------ program constants
MAX_FRAMES_PER_SEGMENT == 125
MAX_TOTAL_FRAMES == 10000
MIN_FRAMES == 2
POLL_INTERVAL == 3
TEMP_DIR == "temp"
COMFYUI_INPUT_DIR == "comfyui_input"
TEMP_FRAME_PREFIX == "last_frame_"
TEMP_VIDEO_PREFIX == "segment_"
FINAL_PREFIX == "final_"

\* ------------------------------------------------------------ input sets
generation_timeout == 1                \* constructor argument, seconds
None == "<None>"                       \* Python None / key absent
SegmentChoices ==
    { [frames |-> 2,   prompt |-> "pA"],
      [frames |-> 126, prompt |-> None],
      [frames |-> 125, prompt |-> ""] }
InitialPrompt == "p0"
InitialImage == <<"caller", "image_", 0>>

RECURSIVE SeqsUpTo(_, _)
SeqsUpTo(S, n) ==
    IF n = 0 THEN {<< >>}
    ELSE LET shorter == SeqsUpTo(S, n - 1)
         IN shorter \cup {Append(s, x) : s \in {t \in shorter : Len(t) = n - 1}, x \in S}

Requests == SeqsUpTo(SegmentChoices, MaxSegs)

\* ---------------------------------------------------------- file contents
\* A video's content is Video(k) when the render job of segment k of the
\* current run produced it; Stale marks anything rendered by an earlier run
\* and anything left half written.  A still's content is the content of the
\* video it was cut from.
Video(k) == <<"video", k>>
Stale == <<"stale", 0>>
Stitched == <<"stitched", 0>>
CallerImage == <<"caller image", 0>>

\* A path is <<directory, name prefix, timestamp>>; the file system maps the
\* paths of the files that exist to their contents.
Path(dir, prefix, ts) == <<dir, prefix, ts>>
DirOf(p) == p[1]
PrefixOf(p) == p[2]
NoPath == <<"", "", 0>>
NoFiles == [p \in {} |-> Stale]
Exists(fs, p) == p \in DOMAIN fs
WriteFile(fs, p, c) == [x \in DOMAIN fs \cup {p} |-> IF x = p THEN c ELSE fs[x]]
RemoveFiles(fs, ps) == [x \in DOMAIN fs \ ps |-> fs[x]]
Retag(fs) == [x \in DOMAIN fs |-> Stale]
InDir(fs, dir) == {p \in DOMAIN fs : DirOf(p) = dir}
SeqToSet(s) == {s[k] : k \in 1..Len(s)}

VARIABLES
    pc,                     \* position of generate_long_video
    runs,                   \* calls of generate_long_video so far
    now,                    \* wall clock, seconds
    segments_data,          \* argument of the current run
    i,                      \* loop index, 1-based
    prompt,                 \* loop local: resolved prompt of segment i
    video_segments,         \* local list of scratch video paths
    current_image,          \* local
    current_prompt,         \* local
    temp_files_to_cleanup,  \* local list of bridge-frame paths
    prompt_id,              \* job id returned by the server (0: none)
    start_time,             \* wait_for_generation: loop time at entry
    video_path,             \* generate_video_segment: located output (0: none)
    files,                  \* files under TEMP_DIR and COMFYUI_INPUT_DIR
    outputDir,              \* COMFYUI_OUTPUT_DIR, oldest first (by mtime)
    pending,                \* server: jobs submitted and not yet finished
    history,                \* server: finished jobs (the /history index)
    result,                 \* what the last run handed to its caller
    \* ---- observation of the current run (not program state)
    submits, polls,         \* requests sent to the render server
    submitLog,              \* one record per accepted/attempted POST
    concatLog,              \* one record per concatenate_videos call
    extractLog,             \* one record per successful extract_last_frame
    copied,                 \* segments whose output was copied to scratch
    produced,               \* segments whose job wrote an output file
    removed,                \* files deleted by the cleanup phase
    failedAt,               \* segment whose step raised (0: none)
    cleaned,                \* the finally clause of this run has run
    preTemp,                \* the files that existed when the run started
    \* ---- one call of wait_for_generation, looked at on its own
    wpc,                    \* position: "idle", "poll", "sleep", "ended"
    timeout,                \* argument, seconds
    elapsed,                \* loop.time() - start_time, seconds
    jobDone,                \* server: prompt_id is in the /history index
    response,               \* the answer of the last status request
    wpolls,                 \* status requests sent by this call
    outcome,                \* how the call ended
    \* ---- two requests served by one event loop
    ppc,                    \* per request: "new", "run", "sleep", "done"
    pn,                     \* per request: number of segments asked for
    pseg,                   \* per request: segment being rendered
    psince,                 \* per request: when its sleep began
    pvideos,                \* per request: its video_segments list
    pframes,                \* per request: its temp_files_to_cleanup list
    pout,                   \* per request: "none", "ok" or "error"
    pnow,                   \* wall clock, seconds
    pfiles,                 \* files under TEMP_DIR and COMFYUI_INPUT_DIR: who wrote them
    pwrites,                \* every <<path, request>> written so far
    pqueue,                 \* the server's queue: <<request, segment>> jobs, oldest first
    poutput,                \* the .mp4 files of the output directory, newest last: the job of each
    pcopied,                \* per request: the job whose output it copied for each segment
    \* ---- one call of process_image_to_video
    spc,                    \* position: "idle", "materialize", "post", "ended"
    template,               \* the workflow template read from workflow_file
    params,                 \* prompt, image_path, n_frames, target size
    workflow,               \* the workflow after update_workflow_params
    post,                   \* the answer of POST /prompt
    sret,                   \* what the call returned or raised
    waited,                 \* generate_video_segment went on to wait_for_generation
    \* ---- one call of concatenate_videos
    cpc,                    \* position: "idle", "count", "exists", "info", "writer", "write", "done"
    video_paths,            \* argument
    disk,                   \* the videos on disk: path -> what the path holds
    output,                 \* output_path: created or not, and the frames written
    cvideo,                 \* index of the video the writing loop is at
    cret,                   \* what the call returned or raised
    \* ---- the conversational collector of bot.py, one user
    WAITING_FOR,            \* WAITING_FOR: user_id -> state (absent: None)
    USER_DATA,              \* USER_DATA: user_id -> dict (absent: the empty dict)
    sender,                 \* the sender of the last message handled
    downloaded,             \* the last handler called download_media
    handed,                 \* process_long_video as the last handler called it, if it did
    \* ---- the adaptive content-creation commands, one user
    hpc,                    \* handler -> position in handle_adaptive_create
    tpc,                    \* task -> position in run_adaptive_content_creation
    ADAPTIVE_AGENT_TASKS,   \* ADAPTIVE_AGENT_TASKS[user_id] (absent: None)
    ADAPTIVE_AGENT_STATE,   \* ADAPTIVE_AGENT_STATE[user_id]['status']
    \* ---- process_short_video around one call of process_image_to_video
    input_image,            \* the downloaded image: "present" or "removed"
    job_complete,           \* the server has finished the submitted job
    \* ---- one call of a function without state
    call,                   \* its arguments
    ret                     \* its result ("unset" before the call)

vars == <<pc, runs, now, segments_data, i, prompt, video_segments,
          current_image, current_prompt, temp_files_to_cleanup, prompt_id,
          start_time, video_path, files, outputDir, pending, history,
          result, submits, polls, submitLog, concatLog, extractLog, copied,
          produced, removed, failedAt, cleaned, preTemp,
          wpc, timeout, elapsed, jobDone, response, wpolls, outcome,
          ppc, pn, pseg, psince, pvideos, pframes, pout, pnow, pfiles, pwrites,
          pqueue, poutput, pcopied,
          spc, template, params, workflow, post, sret, waited,
          cpc, video_paths, disk, output, cvideo, cret,
          WAITING_FOR, USER_DATA, sender, downloaded, handed,
          hpc, tpc, ADAPTIVE_AGENT_TASKS, ADAPTIVE_AGENT_STATE,
          input_image, job_complete, call, ret>>

locals == <<segments_data, i, prompt, video_segments, current_image,
            current_prompt, temp_files_to_cleanup, prompt_id, start_time, video_path>>
dirs == <<files, outputDir>>
server == <<pending, history>>
pipeline == <<pc, runs, now, locals, dirs, server, result, submits, polls,
              submitLog, concatLog, extractLog, copied, produced, removed,
              failedAt, cleaned, preTemp>>
obs == <<submits, polls, submitLog, concatLog, extractLog, copied, produced,
         removed, failedAt, cleaned, preTemp>>

waitVars == <<wpc, timeout, elapsed, jobDone, response, wpolls, outcome>>
\* what the long-video pipeline leaves alone
pairVars == <<ppc, pn, pseg, psince, pvideos, pframes, pout, pnow, pfiles, pwrites,
              pqueue, poutput, pcopied>>
subVars == <<spc, template, params, workflow, post, sret, waited>>
concatVars == <<cpc, video_paths, disk, output, cvideo, cret>>
chatVars == <<WAITING_FOR, USER_DATA, sender, downloaded, handed>>
callVars == <<call, ret>>
adaptVars == <<hpc, tpc, ADAPTIVE_AGENT_TASKS, ADAPTIVE_AGENT_STATE>>
shortVars == <<input_image, job_complete>>
\* what each part leaves alone
others == <<waitVars, pairVars, subVars, concatVars, chatVars, adaptVars, shortVars, callVars>>
exceptWait == <<pipeline, pairVars, subVars, concatVars, chatVars, adaptVars, shortVars, callVars>>
exceptPair == <<pipeline, waitVars, subVars, concatVars, chatVars, adaptVars, shortVars, callVars>>
exceptSub == <<pipeline, waitVars, pairVars, concatVars, chatVars, adaptVars, shortVars, callVars>>
exceptConcat == <<pipeline, waitVars, pairVars, subVars, chatVars, adaptVars, shortVars, callVars>>
exceptChat == <<pipeline, waitVars, pairVars, subVars, concatVars, adaptVars, shortVars, callVars>>
exceptAdapt == <<pipeline, waitVars, pairVars, subVars, concatVars, chatVars, shortVars, callVars>>
exceptCall == <<pipeline, waitVars, pairVars, subVars, concatVars, chatVars, adaptVars, shortVars>>
exceptShort == <<pipeline, waitVars, pairVars, concatVars, chatVars, adaptVars, callVars>>

NoResult == [kind |-> "none", path |-> NoPath, error |-> ""]

\* wait_for_generation is not looked at on its own.
NoResponse == [status |-> 0, has_id |-> FALSE]
WaitIdle ==
    /\ wpc = "idle"
    /\ timeout = 0
    /\ elapsed = 0
    /\ jobDone = FALSE
    /\ response = NoResponse
    /\ wpolls = 0
    /\ outcome = "none"

\* The two concurrent requests are not looked at.
Tasks == {"A", "B"}
PairIdle ==
    /\ ppc = [r \in Tasks |-> "new"]
    /\ pn = [r \in Tasks |-> 0]
    /\ pseg = [r \in Tasks |-> 0]
    /\ psince = [r \in Tasks |-> 0]
    /\ pvideos = [r \in Tasks |-> << >>]
    /\ pframes = [r \in Tasks |-> << >>]
    /\ pout = [r \in Tasks |-> "none"]
    /\ pnow = 0
    /\ pfiles = [p \in {} |-> "A"]
    /\ pwrites = {}
    /\ pqueue = << >>
    /\ poutput = << >>
    /\ pcopied = [r \in Tasks |-> << >>]

\* process_image_to_video is not looked at on its own.
SubIdle ==
    /\ spc = "idle"
    /\ template = << >>
    /\ params = << >>
    /\ workflow = << >>
    /\ post = [kind |-> "none"]
    /\ sret = [kind |-> "none"]
    /\ waited = FALSE

\* concatenate_videos is not looked at on its own.
ConcatIdle ==
    /\ cpc = "idle"
    /\ video_paths = << >>
    /\ disk = << >>
    /\ output = [created |-> FALSE, width |-> 0, height |-> 0, fps |-> 0, frames |-> << >>]
    /\ cvideo = 0
    /\ cret = [kind |-> "unset"]

\* The users that write to the bot: one of the whitelist, one not.
Member == "user 1"
Stranger == "user 9"
NoSender == "nobody"
Users == {Member, Stranger}
\* src/config.py line 20
ID_WHITELIST == {Member}
\* Variant: every sender passes.
is_authorized_anyone(user_id) == user_id \in Users

\* src/bot.py lines 38-40
is_authorized(user_id) == user_id \in ID_WHITELIST

\* No user talks to the bot.
ChatIdle ==
    /\ WAITING_FOR = [u \in Users |-> None]
    /\ USER_DATA = [u \in Users |-> << >>]
    /\ sender = NoSender
    /\ downloaded = FALSE
    /\ handed = [called |-> FALSE, segments |-> << >>]

\* The handlers of '/ai create' and the tasks they start, one task a handler.
Handlers == {"h1", "h2", "h3"}
\* No '/ai create' was sent; the user has learned a strategy.
AdaptIdle ==
    /\ hpc = [h \in Handlers |-> "idle"]
    /\ tpc = [h \in Handlers |-> "none"]
    /\ ADAPTIVE_AGENT_TASKS = None
    /\ ADAPTIVE_AGENT_STATE = "learned"

\* The image of the short-video request is downloaded; nothing is submitted.
ShortIdle ==
    /\ input_image = "present"
    /\ job_complete = FALSE

\* No function is looked at on its own.
CallIdle ==
    /\ call = [fn |-> "none"]
    /\ ret = [kind |-> "unset"]

\* No call of the generator is under way.
PipelineIdle ==
    /\ pc = "idle"
    /\ runs = 0
    /\ now = 0
    /\ segments_data = << >>
    /\ i = 1
    /\ prompt = None
    /\ video_segments = << >>
    /\ current_image = InitialImage
    /\ current_prompt = InitialPrompt
    /\ temp_files_to_cleanup = << >>
    /\ prompt_id = 0
    /\ start_time = 0
    /\ video_path = 0
    /\ outputDir = << >>
    /\ pending = {}
    /\ history = {}
    /\ result = NoResult
    /\ submits = 0
    /\ polls = 0
    /\ submitLog = << >>
    /\ concatLog = << >>
    /\ extractLog = << >>
    /\ copied = {}
    /\ produced = {}
    /\ removed = {}
    /\ failedAt = 0
    /\ cleaned = FALSE
    /\ preTemp = {}

Init ==
    /\ PipelineIdle /\ files = NoFiles
    /\ WaitIdle /\ PairIdle /\ SubIdle /\ ConcatIdle /\ ChatIdle /\ CallIdle
    /\ AdaptIdle /\ ShortIdle

\* The clock moves on while a render job is awaited: between two file
\* operations of the generator no second boundary is crossed, between two
\* segments (where names made from the clock could meet) any number may be.
ClockMovesAt == {"poll"}

Tick ==
    /\ pc \in ClockMovesAt
    /\ now < MaxClock
    /\ now' = now + 1
    /\ UNCHANGED <<pc, runs, locals, dirs, server, result, obs>>
    /\ UNCHANGED others

\* Variant: the exception reaches the caller without the finally clause.
RaiseSkippingFinally(error) ==
    /\ pc' = "done"
    /\ result' = [kind |-> "error", path |-> NoPath, error |-> error]
    /\ failedAt' = IF i <= Len(segments_data) THEN i ELSE 0

\* An exception leaves the try block: control goes to the finally clause.
Raise(error) ==
    /\ pc' = "finally"
    /\ result' = [kind |-> "error", path |-> NoPath, error |-> error]
    /\ failedAt' = IF i <= Len(segments_data) THEN i ELSE 0

\* generate_long_video is called: locals are initialised (lines 85-88).
\* What earlier runs rendered is stale from now on.
StartRun(segs) ==
    /\ pc = "idle"
    /\ runs < MaxRuns
    /\ runs' = runs + 1
    /\ pc' = "loop"
    /\ segments_data' = segs
    /\ i' = 1
    /\ prompt' = None
    /\ video_segments' = << >>
    /\ current_image' = InitialImage
    /\ current_prompt' = InitialPrompt
    /\ temp_files_to_cleanup' = << >>
    /\ prompt_id' = 0
    /\ start_time' = 0
    /\ video_path' = 0
    /\ files' = Retag(files)
    /\ outputDir' = [k \in 1..Len(outputDir) |-> Stale]
    /\ preTemp' = DOMAIN files
    /\ UNCHANGED <<now, server, result, submits, polls, submitLog,
                   concatLog, extractLog, copied, produced, removed, failedAt, cleaned>>
    /\ UNCHANGED others

\* The caller has taken the result or the error; the generator is free for
\* the next call.  The observation of the run is wiped.
Return ==
    /\ pc = "done"
    /\ pc' = "idle"
    /\ segments_data' = << >>
    /\ i' = 1
    /\ prompt' = None
    /\ video_segments' = << >>
    /\ current_image' = InitialImage
    /\ current_prompt' = InitialPrompt
    /\ temp_files_to_cleanup' = << >>
    /\ prompt_id' = 0
    /\ start_time' = 0
    /\ video_path' = 0
    /\ pending' = {}
    /\ history' = {}
    /\ result' = NoResult
    /\ submits' = 0
    /\ polls' = 0
    /\ submitLog' = << >>
    /\ concatLog' = << >>
    /\ extractLog' = << >>
    /\ copied' = {}
    /\ produced' = {}
    /\ removed' = {}
    /\ failedAt' = 0
    /\ cleaned' = FALSE
    /\ preTemp' = {}
    /\ UNCHANGED <<runs, now, dirs>>
    /\ UNCHANGED others

\* Variant: only a missing prompt is inherited, an empty one is used as it is.
ResolvePromptNoneOnly(segment, cur_prompt) ==
    IF segment.prompt # None THEN segment.prompt ELSE cur_prompt

\* line 94: segment.get('prompt') or current_prompt
ResolvePrompt(segment, cur_prompt) ==
    IF segment.prompt \notin {None, ""} THEN segment.prompt ELSE cur_prompt

\* lines 92-94: the for statement takes the next segment, or the loop ends.
LoopHead ==
    /\ pc = "loop"
    /\ IF i <= Len(segments_data)
       THEN /\ prompt' = ResolvePrompt(segments_data[i], current_prompt)
            /\ pc' = "submit"
       ELSE /\ prompt' = prompt
            /\ pc' = "stitch"
    /\ UNCHANGED <<runs, now, segments_data, i, video_segments,
                   current_image, current_prompt, temp_files_to_cleanup, prompt_id,
                   start_time, video_path, dirs, server, result, obs>>
    /\ UNCHANGED others

\* The record of one POST to {comfyui_url}/prompt.
SubmitRecord(accepted) ==
    [seg |-> i, prompt |-> prompt, image |-> current_image,
     imageContent |-> IF Exists(files, current_image) THEN files[current_image]
                      ELSE CallerImage,
     frames |-> segments_data[i].frames, accepted |-> accepted]

\* process_image_to_video, lines 51-55: the source image or the workflow
\* template cannot be read; nothing is sent.
SubmitUnreadable ==
    /\ pc = "submit"
    /\ Raise("Failed to read image or workflow")
    /\ UNCHANGED <<runs, now, locals, dirs, server, submits, polls,
                   submitLog, concatLog, extractLog, copied, produced, removed, cleaned, preTemp>>
    /\ UNCHANGED others

\* Variant: a rejected POST is sent again.
SubmitRejectedAndRetried ==
    /\ pc = "submit"
    /\ current_image = InitialImage \/ Exists(files, current_image)
    /\ submits' = submits + 1
    /\ submitLog' = Append(submitLog, SubmitRecord(FALSE))
    /\ UNCHANGED <<pc, result, failedAt>>
    /\ UNCHANGED <<runs, now, locals, dirs, server, polls,
                   concatLog, extractLog, copied, produced, removed, cleaned, preTemp>>
    /\ UNCHANGED others

\* process_image_to_video, lines 82-92: the POST fails or is answered with a
\* status other than 200.
SubmitRejected ==
    /\ pc = "submit"
    /\ current_image = InitialImage \/ Exists(files, current_image)
    /\ submits' = submits + 1
    /\ submitLog' = Append(submitLog, SubmitRecord(FALSE))
    /\ Raise("Failed to process image")
    /\ UNCHANGED <<runs, now, locals, dirs, server, polls,
                   concatLog, extractLog, copied, produced, removed, cleaned, preTemp>>
    /\ UNCHANGED others

\* process_image_to_video returns the job id (line 87); wait_for_generation
\* is entered and reads the loop time (line 97).
SubmitAccepted ==
    /\ pc = "submit"
    /\ current_image = InitialImage \/ Exists(files, current_image)
    /\ submits' = submits + 1
    /\ submitLog' = Append(submitLog, SubmitRecord(TRUE))
    /\ prompt_id' = i
    /\ pending' = pending \cup {i}
    /\ start_time' = now
    /\ pc' = "poll"
    /\ UNCHANGED <<runs, now, segments_data, i, prompt, video_segments,
                   current_image, current_prompt, temp_files_to_cleanup, video_path,
                   dirs, history, result, polls, concatLog, extractLog, copied,
                   produced, removed, failedAt, cleaned, preTemp>>
    /\ UNCHANGED others

\* The render server finishes a job: it enters the history index and, when
\* the render worked, an output file is written as the newest .mp4.
ServerFinish(job, writes) ==
    /\ job \in pending
    /\ pending' = pending \ {job}
    /\ history' = history \cup {job}
    /\ IF writes
       THEN /\ Len(outputDir) < MaxOutFiles
            /\ outputDir' = Append(outputDir, Video(job))
            /\ produced' = produced \cup {job}
       ELSE UNCHANGED <<outputDir, produced>>
    /\ UNCHANGED <<pc, runs, now, locals, files, result, submits, polls,
                   submitLog, concatLog, extractLog, copied, removed, failedAt, cleaned, preTemp>>
    /\ UNCHANGED others

\* wait_for_generation, lines 100-102.
TimedOut == now - start_time > generation_timeout

PollTimeout ==
    /\ pc = "poll"
    /\ TimedOut
    /\ Raise("TimeoutError")
    /\ UNCHANGED <<runs, now, locals, dirs, server, submits, polls,
                   submitLog, concatLog, extractLog, copied, produced, removed, cleaned, preTemp>>
    /\ UNCHANGED others

\* line 104: requests.get raises; nothing in wait_for_generation catches it.
PollTransportError ==
    /\ pc = "poll"
    /\ ~TimedOut
    /\ polls' = polls + 1
    /\ Raise("ConnectionError")
    /\ UNCHANGED <<runs, now, locals, dirs, server, submits,
                   submitLog, concatLog, extractLog, copied, produced, removed, cleaned, preTemp>>
    /\ UNCHANGED others

\* Variant: any answer with status 200 counts as completion.
PollCompleteOnAnyAnswer ==
    /\ pc = "poll"
    /\ ~TimedOut
    /\ polls' = polls + 1
    /\ pc' = "locate"
    /\ UNCHANGED <<runs, now, locals, dirs, server, result, submits,
                   submitLog, concatLog, extractLog, copied, produced, removed,
                   failedAt, cleaned, preTemp>>
    /\ UNCHANGED others

\* lines 105-111: status 200 and the job id is a key of the answer.
PollComplete ==
    /\ pc = "poll"
    /\ ~TimedOut
    /\ prompt_id \in history
    /\ polls' = polls + 1
    /\ pc' = "locate"
    /\ UNCHANGED <<runs, now, locals, dirs, server, result, submits,
                   submitLog, concatLog, extractLog, copied, produced, removed,
                   failedAt, cleaned, preTemp>>
    /\ UNCHANGED others

\* lines 105-115: status 200 without the job id, or another status (notOk);
\* the coroutine goes to sleep.
PollNotReady(notOk) ==
    /\ pc = "poll"
    /\ ~TimedOut
    /\ notOk \/ prompt_id \notin history
    /\ polls' = polls + 1
    /\ pc' = "sleep"
    /\ UNCHANGED <<runs, now, locals, dirs, server, result, submits,
                   submitLog, concatLog, extractLog, copied, produced, removed,
                   failedAt, cleaned, preTemp>>
    /\ UNCHANGED others

\* line 115: asyncio.sleep(3) returns.
Wake ==
    /\ pc = "sleep"
    /\ now + POLL_INTERVAL <= MaxClock
    /\ now' = now + POLL_INTERVAL
    /\ pc' = "poll"
    /\ UNCHANGED <<runs, locals, dirs, server, result, obs>>
    /\ UNCHANGED others

\* Variant: the cancellation is noticed at the head of the segment loop.
CancelAtBoundary ==
    /\ pc = "loop"
    /\ Raise("CancelledError")
    /\ UNCHANGED <<runs, now, locals, dirs, server, submits, polls,
                   submitLog, concatLog, extractLog, copied, produced, removed, cleaned, preTemp>>
    /\ UNCHANGED others

\* The task is cancelled while it is suspended in asyncio.sleep: the await
\* raises CancelledError.
Cancel ==
    /\ pc = "sleep"
    /\ Raise("CancelledError")
    /\ UNCHANGED <<runs, now, locals, dirs, server, submits, polls,
                   submitLog, concatLog, extractLog, copied, produced, removed, cleaned, preTemp>>
    /\ UNCHANGED others

\* get_latest_video: the most recently modified .mp4 (0: None).
get_latest_video(output_dir) == Len(output_dir)

\* generate_video_segment, lines 46-49.
Locate ==
    /\ pc = "locate"
    /\ IF get_latest_video(outputDir) = 0
       THEN /\ Raise("No output video found")
            /\ UNCHANGED video_path
       ELSE /\ video_path' = get_latest_video(outputDir)
            /\ pc' = "copy"
            /\ UNCHANGED <<result, failedAt>>
    /\ UNCHANGED <<runs, now, segments_data, i, prompt, video_segments,
                   current_image, current_prompt, temp_files_to_cleanup, prompt_id,
                   start_time, dirs, server, submits, polls, submitLog, concatLog,
                   extractLog, copied, produced, removed, cleaned, preTemp>>
    /\ UNCHANGED others

\* lines 54-55
SegmentPath(timestamp) == Path(TEMP_DIR, TEMP_VIDEO_PREFIX, timestamp)

\* Variant: the bridge frame is written to the scratch directory.
LastFramePathInScratch(timestamp) == Path(TEMP_DIR, TEMP_FRAME_PREFIX, timestamp)

\* lines 104-105
LastFramePath(timestamp) == Path(COMFYUI_INPUT_DIR, TEMP_FRAME_PREFIX, timestamp)

\* line 113
FinalPath(timestamp) == Path(TEMP_DIR, FINAL_PREFIX, timestamp)

\* lines 66-68: shutil.copy2 raises.
CopyFails ==
    /\ pc = "copy"
    /\ Raise("copy failed")
    /\ UNCHANGED <<runs, now, locals, dirs, server, submits, polls,
                   submitLog, concatLog, extractLog, copied, produced, removed, cleaned, preTemp>>
    /\ UNCHANGED others

\* line 101: is a bridge frame needed after segment k?
NeedsBridge(k, segs) == k < Len(segs)

\* lines 54-70 and 98-101: the output is copied to scratch under a name made
\* from the clock (a file of that name is overwritten), the original is
\* removed, the path is appended to video_segments.
CopyToScratch ==
    /\ pc = "copy"
    /\ LET segment_path == SegmentPath(now)
       IN /\ files' = WriteFile(files, segment_path, outputDir[video_path])
          /\ video_segments' = Append(video_segments, segment_path)
    /\ outputDir' = SubSeq(outputDir, 1, video_path - 1)
                      \o SubSeq(outputDir, video_path + 1, Len(outputDir))
    /\ copied' = copied \cup {i}
    /\ video_path' = 0
    /\ IF NeedsBridge(i, segments_data)
       THEN pc' = "extract" /\ i' = i
       ELSE pc' = "loop" /\ i' = i + 1
    /\ UNCHANGED <<runs, now, segments_data, prompt, current_image,
                   current_prompt, temp_files_to_cleanup, prompt_id, start_time,
                   server, result, submits, polls, submitLog, concatLog, extractLog,
                   produced, removed, failedAt, cleaned, preTemp>>
    /\ UNCHANGED others

\* extract_last_frame raises (video unreadable, no frame, imwrite failed).
ExtractFails ==
    /\ pc = "extract"
    /\ Raise("Could not read the last frame")
    /\ UNCHANGED <<runs, now, locals, dirs, server, submits, polls,
                   submitLog, concatLog, extractLog, copied, produced, removed, cleaned, preTemp>>
    /\ UNCHANGED others

\* lines 102-109: the last frame of the segment just rendered is written to
\* the server's input directory and becomes the next source image.
ExtractBridge ==
    /\ pc = "extract"
    /\ LET src == video_segments[Len(video_segments)]
           last_frame_path == LastFramePath(now)
       IN /\ Exists(files, src)
          /\ files' = WriteFile(files, last_frame_path, files[src])
          /\ current_image' = last_frame_path
          /\ temp_files_to_cleanup' = Append(temp_files_to_cleanup, last_frame_path)
          /\ extractLog' = Append(extractLog,
                 [seg |-> i, video |-> src, frame |-> last_frame_path,
                  content |-> files[src]])
    /\ current_prompt' = prompt
    /\ i' = i + 1
    /\ pc' = "loop"
    /\ UNCHANGED <<runs, now, segments_data, prompt, video_segments,
                   prompt_id, start_time, video_path, outputDir, server, result,
                   submits, polls, submitLog, concatLog, copied, produced, removed,
                   failedAt, cleaned, preTemp>>
    /\ UNCHANGED others

\* The record of one concatenate_videos call: its list and what each listed
\* file holds at the time of the call.
ConcatRecord(paths) ==
    [paths |-> paths,
     contents |-> [k \in 1..Len(paths) |->
                     IF Exists(files, paths[k]) THEN files[paths[k]] ELSE Stale]]

\* lines 112, 116-117: a single segment is returned as it is; with no
\* segment at all video_segments[0] raises IndexError.
ReturnSingle ==
    /\ pc = "stitch"
    /\ Len(video_segments) <= 1
    /\ IF Len(video_segments) = 0
       THEN Raise("IndexError")
       ELSE /\ result' = [kind |-> "ok", path |-> video_segments[1], error |-> ""]
            /\ pc' = "finally"
            /\ UNCHANGED failedAt
    /\ UNCHANGED <<runs, now, locals, dirs, server, submits, polls,
                   submitLog, concatLog, extractLog, copied, produced, removed, cleaned, preTemp>>
    /\ UNCHANGED others

\* lines 112-115: concatenate_videos writes the final video.
Stitch ==
    /\ pc = "stitch"
    /\ Len(video_segments) > 1
    /\ \A k \in 1..Len(video_segments) : Exists(files, video_segments[k])
    /\ concatLog' = Append(concatLog, ConcatRecord(video_segments))
    /\ files' = WriteFile(files, FinalPath(now), Stitched)
    /\ result' = [kind |-> "ok", path |-> FinalPath(now), error |-> ""]
    /\ pc' = "finally"
    /\ UNCHANGED <<runs, now, locals, outputDir, server, submits, polls,
                   submitLog, extractLog, copied, produced, removed, failedAt, cleaned, preTemp>>
    /\ UNCHANGED others

\* concatenate_videos raises; the output file may already have been created
\* by the VideoWriter (partial).
StitchFails(partial) ==
    /\ pc = "stitch"
    /\ Len(video_segments) > 1
    /\ concatLog' = Append(concatLog, ConcatRecord(video_segments))
    /\ files' = IF partial THEN WriteFile(files, FinalPath(now), Stale) ELSE files
    /\ Raise("Error during video concatenation")
    /\ UNCHANGED <<runs, now, locals, outputDir, server, submits, polls,
                   submitLog, extractLog, copied, produced, removed, cleaned, preTemp>>
    /\ UNCHANGED others

\* _cleanup_temp_files: what it deletes from TEMP_DIR.
CleanupVictims(fs, keep_files) ==
    {p \in InDir(fs, TEMP_DIR) :
        /\ PrefixOf(p) \in {TEMP_FRAME_PREFIX, TEMP_VIDEO_PREFIX}
        /\ p \notin keep_files}

\* Variant: nothing is kept.
KeepNothing(segs) == {}

\* line 121: the list handed to _cleanup_temp_files as keep_files.
KeepFiles(segs) == SeqToSet(segs)

\* Variant: the bridge frames are looked for in the scratch directory.
FramesToRemoveFromScratch(fs, cleanup_list) ==
    SeqToSet(cleanup_list) \cap InDir(fs, TEMP_DIR)

\* lines 123-128: the bridge frames removed from the input directory.
FramesToRemove(fs, cleanup_list) == SeqToSet(cleanup_list) \cap DOMAIN fs

\* Variant: an os.remove that raises is not caught.
CleanupErrorPropagates(outcome_of_try, failed) ==
    IF failed # {}
    THEN [kind |-> "error", path |-> NoPath, error |-> "PermissionError"]
    ELSE outcome_of_try

\* lines 123-128 and 196-199: an os.remove that raises is caught (logged, or
\* passed over), so the finally clause ends normally and what the try block
\* returned or raised goes on to the caller.
AfterCleanup(outcome_of_try, failed) == outcome_of_try

\* lines 119-128: the finally clause, then control is back at the caller.
\* os.remove raises on the paths in undeletable.
FinallyOn(undeletable) ==
    /\ pc = "finally"
    /\ LET victims == CleanupVictims(files, KeepFiles(video_segments))
           afterTemp == RemoveFiles(files, victims \ undeletable)
           frames == FramesToRemove(afterTemp, temp_files_to_cleanup)
       IN /\ files' = RemoveFiles(afterTemp, frames \ undeletable)
          /\ removed' = (victims \cup frames) \ undeletable
          /\ result' = AfterCleanup(result, (victims \cup frames) \cap undeletable)
    /\ cleaned' = TRUE
    /\ pc' = "done"
    /\ UNCHANGED <<runs, now, locals, outputDir, server,
                   submits, polls, submitLog, concatLog, extractLog, copied,
                   produced, failedAt, preTemp>>
    /\ UNCHANGED others

\* Every file can be removed.
Finally == FinallyOn({})

Next ==
    \/ Tick
    \/ \E segs \in Requests : StartRun(segs)
    \/ LoopHead
    \/ SubmitUnreadable
    \/ SubmitRejected
    \/ SubmitAccepted
    \/ \E job \in pending, writes \in BOOLEAN : ServerFinish(job, writes)
    \/ PollTimeout
    \/ PollTransportError
    \/ PollComplete
    \/ \E notOk \in BOOLEAN : PollNotReady(notOk)
    \/ Wake
    \/ Cancel
    \/ Locate
    \/ CopyFails
    \/ CopyToScratch
    \/ ExtractFails
    \/ ExtractBridge
    \/ ReturnSingle
    \/ Stitch
    \/ \E partial \in BOOLEAN : StitchFails(partial)
    \/ Finally
    \/ Return

Spec == Init /\ [][Next]_vars

\* The same calls on a file system where the bridge frames in the server's
\* input directory, the per-segment videos in the scratch directory, or both
\* cannot be removed when the cleanup phase runs.
StuckFrames == {LastFramePath(t) : t \in 0..MaxClock}
StuckSegments == {SegmentPath(t) : t \in -1..MaxClock}
StuckChoices == {StuckFrames, StuckSegments, StuckFrames \cup StuckSegments}
NextStuck ==
    \/ Next
    \/ \E undeletable \in StuckChoices : FinallyOn(undeletable)
SpecStuck == Init /\ [][NextStuck]_vars

\* ------------------------------------------------- generate_video_extension
\* The generator runs generate_video_extension (src/long_video.py lines
\* 130-187) again and again.  The scratch directory holds a per-segment video
\* of an earlier request, and the caller has a video of its own elsewhere.

\* TEMP_DIR spelled as an absolute path: the same directory, another string.
ABS_TEMP_DIR == "/app/temp"
Absolute(p) == IF DirOf(p) = TEMP_DIR THEN Path(ABS_TEMP_DIR, PrefixOf(p), p[3]) ELSE p
\* The file a path string names.
Canon(p) == IF DirOf(p) = ABS_TEMP_DIR THEN Path(TEMP_DIR, PrefixOf(p), p[3]) ELSE p

CallerVideo == Path("caller", "video_", 0)
EarlierSegment == Path(TEMP_DIR, TEMP_VIDEO_PREFIX, -1)

InitExt ==
    /\ PipelineIdle
    /\ files = [p \in {CallerVideo, EarlierSegment} |-> Stale]
    /\ WaitIdle /\ PairIdle /\ SubIdle /\ ConcatIdle /\ ChatIdle /\ CallIdle
    /\ AdaptIdle /\ ShortIdle

\* The strings a caller may pass as initial_video: its own video, or a
\* per-segment video in the scratch directory, spelled as the generator
\* spells it (relative to the working directory) or as an absolute path.
InitialVideoChoices(fs) ==
    LET inScratch == {p \in InDir(fs, TEMP_DIR) : PrefixOf(p) = TEMP_VIDEO_PREFIX}
    IN  ({CallerVideo} \cap DOMAIN fs) \cup inScratch
          \cup {Absolute(p) : p \in inScratch}

\* lines 143-146: locals are initialised.
ExtStart(initial_video, segs) ==
    /\ pc = "idle"
    /\ runs < MaxRuns
    /\ runs' = runs + 1
    /\ pc' = "xloop"
    /\ segments_data' = segs
    /\ i' = 1
    /\ prompt' = None
    /\ video_segments' = <<initial_video>>
    /\ current_image' = initial_video
    /\ current_prompt' = None
    /\ temp_files_to_cleanup' = << >>
    /\ prompt_id' = 0
    /\ start_time' = 0
    /\ video_path' = 0
    /\ files' = Retag(files)
    /\ outputDir' = [k \in 1..Len(outputDir) |-> Stale]
    /\ preTemp' = DOMAIN files
    /\ UNCHANGED <<now, server, result, submits, polls, submitLog,
                   concatLog, extractLog, copied, produced, removed, failedAt, cleaned>>
    /\ UNCHANGED others

\* lines 150-154: the next segment is taken; a segment without a prompt
\* raises.  After the last one the loop ends.
ExtLoopHead ==
    /\ pc = "xloop"
    /\ IF i <= Len(segments_data)
       THEN IF segments_data[i].prompt \in {None, ""}
            THEN /\ Raise("Prompt is required")
                 /\ UNCHANGED prompt
            ELSE /\ prompt' = segments_data[i].prompt
                 /\ pc' = "xextract"
                 /\ UNCHANGED <<result, failedAt>>
       ELSE /\ pc' = "xstitch"
            /\ UNCHANGED <<prompt, result, failedAt>>
    /\ UNCHANGED <<runs, now, segments_data, i, video_segments,
                   current_image, current_prompt, temp_files_to_cleanup, prompt_id,
                   start_time, video_path, dirs, server, submits, polls,
                   submitLog, concatLog, extractLog, copied, produced, removed,
                   cleaned, preTemp>>
    /\ UNCHANGED others

\* extract_last_frame raises (file missing, unreadable, imwrite failed).
ExtExtractFails ==
    /\ pc = "xextract"
    /\ Raise("Could not read the last frame")
    /\ UNCHANGED <<runs, now, locals, dirs, server, submits, polls,
                   submitLog, concatLog, extractLog, copied, produced, removed, cleaned, preTemp>>
    /\ UNCHANGED others

\* lines 157-162: the last frame of the current video is written to the
\* server's input directory and becomes the source image of this segment.
ExtExtract ==
    /\ pc = "xextract"
    /\ LET src == Canon(current_image)
           last_frame_path == LastFramePath(now)
       IN /\ Exists(files, src)
          /\ files' = WriteFile(files, last_frame_path, files[src])
          /\ current_image' = last_frame_path
          /\ temp_files_to_cleanup' = Append(temp_files_to_cleanup, last_frame_path)
          /\ extractLog' = Append(extractLog,
                 [seg |-> i, video |-> src, frame |-> last_frame_path,
                  content |-> files[src]])
    /\ pc' = "submit"
    /\ UNCHANGED <<runs, now, segments_data, i, prompt, video_segments,
                   current_prompt, prompt_id, start_time, video_path, outputDir,
                   server, result, submits, polls, submitLog, concatLog, copied,
                   produced, removed, failedAt, cleaned, preTemp>>
    /\ UNCHANGED others

\* generate_video_segment lines 54-70, then lines 166-168: the output is
\* copied to scratch, appended to video_segments, and is the current video.
ExtCopyToScratch ==
    /\ pc = "copy"
    /\ LET segment_path == SegmentPath(now)
       IN /\ files' = WriteFile(files, segment_path, outputDir[video_path])
          /\ video_segments' = Append(video_segments, segment_path)
          /\ current_image' = segment_path
    /\ outputDir' = SubSeq(outputDir, 1, video_path - 1)
                      \o SubSeq(outputDir, video_path + 1, Len(outputDir))
    /\ copied' = copied \cup {i}
    /\ video_path' = 0
    /\ current_prompt' = prompt
    /\ i' = i + 1
    /\ pc' = "xloop"
    /\ UNCHANGED <<runs, now, segments_data, prompt, temp_files_to_cleanup,
                   prompt_id, start_time, server, result, submits, polls,
                   submitLog, concatLog, extractLog, produced, removed, failedAt,
                   cleaned, preTemp>>
    /\ UNCHANGED others

\* line 172
ExtendedPath(timestamp) == Path(TEMP_DIR, "extended_", timestamp)

\* lines 171, 175-176: no new segment: the initial video is returned.
ExtReturnInitial ==
    /\ pc = "xstitch"
    /\ Len(video_segments) <= 1
    /\ result' = [kind |-> "ok", path |-> video_segments[1], error |-> ""]
    /\ pc' = "finally"
    /\ UNCHANGED <<runs, now, locals, dirs, server, submits, polls,
                   submitLog, concatLog, extractLog, copied, produced, removed,
                   failedAt, cleaned, preTemp>>
    /\ UNCHANGED others

\* What concatenate_videos is given, and what each file holds then.
ExtConcatRecord(paths) ==
    [paths |-> paths,
     contents |-> [k \in 1..Len(paths) |->
                     IF Exists(files, Canon(paths[k])) THEN files[Canon(paths[k])]
                     ELSE Stale]]

\* lines 171-174: the initial video and the new segments are concatenated.
ExtStitch ==
    /\ pc = "xstitch"
    /\ Len(video_segments) > 1
    /\ \A k \in 1..Len(video_segments) : Exists(files, Canon(video_segments[k]))
    /\ concatLog' = Append(concatLog, ExtConcatRecord(video_segments))
    /\ files' = WriteFile(files, ExtendedPath(now), Stitched)
    /\ result' = [kind |-> "ok", path |-> ExtendedPath(now), error |-> ""]
    /\ pc' = "finally"
    /\ UNCHANGED <<runs, now, locals, outputDir, server, submits, polls,
                   submitLog, extractLog, copied, produced, removed, failedAt, cleaned, preTemp>>
    /\ UNCHANGED others

\* concatenate_videos raises; the output file may already have been created.
ExtStitchFails(partial) ==
    /\ pc = "xstitch"
    /\ Len(video_segments) > 1
    /\ concatLog' = Append(concatLog, ExtConcatRecord(video_segments))
    /\ files' = IF partial THEN WriteFile(files, ExtendedPath(now), Stale) ELSE files
    /\ Raise("Error during video concatenation")
    /\ UNCHANGED <<runs, now, locals, outputDir, server, submits, polls,
                   submitLog, extractLog, copied, produced, removed, cleaned, preTemp>>
    /\ UNCHANGED others

NextExt ==
    \/ \E segs \in Requests :
         \E initial_video \in InitialVideoChoices(files) : ExtStart(initial_video, segs)
    \/ ExtLoopHead
    \/ ExtExtractFails
    \/ ExtExtract
    \/ SubmitUnreadable
    \/ SubmitRejected
    \/ SubmitAccepted
    \/ \E job \in pending, writes \in BOOLEAN : ServerFinish(job, writes)
    \/ Tick
    \/ PollTimeout
    \/ PollTransportError
    \/ PollComplete
    \/ \E notOk \in BOOLEAN : PollNotReady(notOk)
    \/ Wake
    \/ Cancel
    \/ Locate
    \/ CopyFails
    \/ ExtCopyToScratch
    \/ ExtReturnInitial
    \/ ExtStitch
    \/ \E partial \in BOOLEAN : ExtStitchFails(partial)
    \/ Finally
    \/ Return

SpecExt == InitExt /\ [][NextExt]_vars

\* -------------------------------------------------- two concurrent requests
\* Two calls of generate_long_video run as tasks of one asyncio event loop
\* and share TEMP_DIR and COMFYUI_INPUT_DIR.  A task gives up the loop only in
\* the sleep of wait_for_generation (src/media_utils.py line 115); between
\* two sleeps it runs alone.  Both requests are well formed and the render
\* server does its part; what is looked at is the files they write.

LoopIsFree == \A r \in Tasks : ppc[r] # "run"

\* The wall clock moves on, whoever runs.
PairTick ==
    /\ pnow < MaxPairClock
    /\ pnow' = pnow + 1
    /\ UNCHANGED <<ppc, pn, pseg, psince, pvideos, pframes, pout, pfiles, pwrites,
                   pqueue, poutput, pcopied>>
    /\ UNCHANGED exceptPair

\* src/media_utils.py lines 82-87: POST /prompt puts the job in the queue.
Submitted(queue, r, seg) == Append(queue, <<r, seg>>)

\* The render server finishes the oldest job of its queue: the job enters
\* the history index and its video is the newest file of the output
\* directory.
PairServerFinish ==
    /\ pqueue # << >>
    /\ poutput' = Append(poutput, Head(pqueue))
    /\ pqueue' = Tail(pqueue)
    /\ UNCHANGED <<ppc, pn, pseg, psince, pvideos, pframes, pout, pnow, pfiles, pwrites,
                   pcopied>>
    /\ UNCHANGED exceptPair

\* src/media_utils.py line 109: prompt_id in history_data
InHistory(r) == \A k \in 1..Len(pqueue) : pqueue[k][1] # r

\* src/media_utils.py lines 137-143: the most recently modified .mp4 of the
\* output directory.  Every finished job has written one, so there is one.
LatestOutput(outputs) == Len(outputs)

\* long_video.py lines 60-64: the located file is removed after the copy.
Without(outputs, k) == SubSeq(outputs, 1, k - 1) \o SubSeq(outputs, k + 1, Len(outputs))

\* lines 85-97: the task is started while the other request is not over
\* yet; it submits its first segment and polls.
PairStart(r, n) ==
    /\ ppc[r] = "new"
    /\ LoopIsFree
    /\ \A q \in Tasks : ppc[q] # "done"
    /\ ppc' = [ppc EXCEPT ![r] = "run"]
    /\ pn' = [pn EXCEPT ![r] = n]
    /\ pseg' = [pseg EXCEPT ![r] = 1]
    /\ pqueue' = Submitted(pqueue, r, 1)
    /\ UNCHANGED <<psince, pvideos, pframes, pout, pnow, pfiles, pwrites, poutput, pcopied>>
    /\ UNCHANGED exceptPair

\* wait_for_generation: the job is not in the history yet; the task sleeps
\* and the loop is free for the other task.
PairPollNotReady(r) ==
    /\ ppc[r] = "run"
    /\ ~InHistory(r)
    /\ ppc' = [ppc EXCEPT ![r] = "sleep"]
    /\ psince' = [psince EXCEPT ![r] = pnow]
    /\ UNCHANGED <<pn, pseg, pvideos, pframes, pout, pnow, pfiles, pwrites,
                   pqueue, poutput, pcopied>>
    /\ UNCHANGED exceptPair

\* The sleep is over, POLL_INTERVAL seconds or more after it began, and the
\* loop resumes the task when nothing else runs.
PairWake(r) ==
    /\ ppc[r] = "sleep"
    /\ LoopIsFree
    /\ pnow >= psince[r] + POLL_INTERVAL
    /\ ppc' = [ppc EXCEPT ![r] = "run"]
    /\ UNCHANGED <<pn, pseg, psince, pvideos, pframes, pout, pnow, pfiles, pwrites,
                   pqueue, poutput, pcopied>>
    /\ UNCHANGED exceptPair

\* Writing a file on behalf of request r.
PairWrite(fs, path, r) == [x \in DOMAIN fs \cup {path} |-> IF x = path THEN r ELSE fs[x]]

\* The poll finds the job, and the task runs on without a pause: the output
\* is copied to scratch (lines 54-70); if a segment follows, the bridge frame
\* is extracted and the next segment submitted and polled (lines 101-109).
PairSegmentDone(r) ==
    /\ ppc[r] = "run"
    /\ pseg[r] < pn[r]
    /\ InHistory(r)
    /\ LET segment_path == SegmentPath(pnow)
           last_frame_path == LastFramePath(pnow)
           video_path_r == LatestOutput(poutput)
       IN /\ pcopied' = [pcopied EXCEPT ![r] = Append(@, poutput[video_path_r])]
          /\ poutput' = Without(poutput, video_path_r)
          /\ pfiles' = PairWrite(PairWrite(pfiles, segment_path, r), last_frame_path, r)
          /\ pwrites' = pwrites \cup {<<segment_path, r>>, <<last_frame_path, r>>}
          /\ pvideos' = [pvideos EXCEPT ![r] = Append(@, segment_path)]
          /\ pframes' = [pframes EXCEPT ![r] = Append(@, last_frame_path)]
    /\ pseg' = [pseg EXCEPT ![r] = @ + 1]
    /\ pqueue' = Submitted(pqueue, r, pseg[r] + 1)
    /\ UNCHANGED <<ppc, pn, psince, pout, pnow>>
    /\ UNCHANGED exceptPair

\* The same for the last segment: the output is copied to scratch, the
\* segments are stitched if there are several and all are there (lines
\* 111-117), and the finally clause (lines 119-128) deletes from TEMP_DIR
\* what is not in this request's list, and this request's bridge frames.
PairLastSegmentDone(r) ==
    /\ ppc[r] = "run"
    /\ pseg[r] = pn[r]
    /\ InHistory(r)
    /\ LET segment_path == SegmentPath(pnow)
           video_path_r == LatestOutput(poutput)
           video_segments_r == Append(pvideos[r], segment_path)
           copiedFs == PairWrite(pfiles, segment_path, r)
           stitches == Len(video_segments_r) > 1
           allThere == \A k \in 1..Len(video_segments_r) : video_segments_r[k] \in DOMAIN copiedFs
           stitchedFs == IF stitches /\ allThere
                         THEN PairWrite(copiedFs, FinalPath(pnow), r) ELSE copiedFs
           victims == CleanupVictims(stitchedFs, KeepFiles(video_segments_r))
           frames == FramesToRemove(stitchedFs, pframes[r])
       IN /\ pcopied' = [pcopied EXCEPT ![r] = Append(@, poutput[video_path_r])]
          /\ poutput' = Without(poutput, video_path_r)
          /\ pfiles' = [x \in DOMAIN stitchedFs \ (victims \cup frames) |-> stitchedFs[x]]
          /\ pwrites' = pwrites \cup {<<segment_path, r>>}
                          \cup (IF stitches /\ allThere THEN {<<FinalPath(pnow), r>>} ELSE {})
          /\ pvideos' = [pvideos EXCEPT ![r] = video_segments_r]
          /\ pout' = [pout EXCEPT ![r] = IF stitches /\ ~allThere THEN "error" ELSE "ok"]
    /\ ppc' = [ppc EXCEPT ![r] = "done"]
    /\ UNCHANGED <<pn, pseg, psince, pframes, pnow, pqueue>>
    /\ UNCHANGED exceptPair

NextPair ==
    \/ PairTick
    \/ PairServerFinish
    \/ \E r \in Tasks, n \in 1..MaxSegs : PairStart(r, n)
    \/ \E r \in Tasks : PairPollNotReady(r)
    \/ \E r \in Tasks : PairWake(r)
    \/ \E r \in Tasks : PairSegmentDone(r)
    \/ \E r \in Tasks : PairLastSegmentDone(r)

SpecPair == Init /\ [][NextPair]_vars

\* --------------------------------------------- wait_for_generation alone
\* One call of wait_for_generation(prompt_id, timeout), src/media_utils.py
\* lines 94-115, with the loop's own clock and the answers of the server
\* spelled out.  The timeout test and the status request that follows it
\* are one step, as in PollComplete above.

\* loop.time() - start_time after d more seconds.  Every value above the
\* timeout answers the test of line 100 alike, so they are kept as one.
Elapse(e, d, t) == IF e + d > t THEN t + 1 ELSE e + d

\* line 100: loop.time() - start_time > timeout
WaitTimedOut == elapsed > timeout

\* lines 96-97: the call begins.
WaitCall(t) ==
    /\ wpc = "idle"
    /\ wpc' = "poll"
    /\ timeout' = t
    /\ elapsed' = 0
    /\ jobDone' = FALSE
    /\ response' = NoResponse
    /\ wpolls' = 0
    /\ outcome' = "none"
    /\ UNCHANGED exceptWait

\* Time passes while the call is under way.
WaitTick ==
    /\ wpc \in {"poll", "sleep"}
    /\ ~WaitTimedOut
    /\ elapsed' = Elapse(elapsed, 1, timeout)
    /\ UNCHANGED <<wpc, timeout, jobDone, response, wpolls, outcome, exceptWait>>

\* The render server finishes the job: its id enters the /history index.
WaitJobCompletes ==
    /\ wpc \in {"poll", "sleep"}
    /\ ~jobDone
    /\ jobDone' = TRUE
    /\ UNCHANGED <<wpc, timeout, elapsed, response, wpolls, outcome, exceptWait>>

\* lines 100-101: raise TimeoutError("Generation timed out")
WaitTimeout ==
    /\ wpc = "poll"
    /\ WaitTimedOut
    /\ wpc' = "ended"
    /\ outcome' = "TimeoutError"
    /\ UNCHANGED <<timeout, elapsed, jobDone, response, wpolls, exceptWait>>

\* line 104: requests.get raises (connection refused, reset, ...); the loop
\* has no except clause around it.
WaitTransportError ==
    /\ wpc = "poll"
    /\ ~WaitTimedOut
    /\ wpolls' = wpolls + 1
    /\ response' = NoResponse
    /\ wpc' = "ended"
    /\ outcome' = "ConnectionError"
    /\ UNCHANGED <<timeout, elapsed, jobDone, exceptWait>>

\* The answer of GET /history/{prompt_id}: the body of a 200 answer holds
\* the id exactly when the job is in the index.
Answer(status) == [status |-> status, has_id |-> status = 200 /\ jobDone]

\* Variant: any 200 answer counts as completion.
CountsAsCompleteOnAny200(r) == r.status = 200

\* lines 105-108: status 200 and prompt_id in history_data
CountsAsComplete(r) == r.status = 200 /\ r.has_id

\* lines 104-108: the request is answered and the answer shows the job: return True
WaitPollComplete ==
    /\ wpc = "poll"
    /\ ~WaitTimedOut
    /\ CountsAsComplete(Answer(200))
    /\ wpolls' = wpolls + 1
    /\ response' = Answer(200)
    /\ wpc' = "ended"
    /\ outcome' = "True"
    /\ UNCHANGED <<timeout, elapsed, jobDone, exceptWait>>

\* lines 104-115: any other answer; the loop goes to sleep.
WaitPollNotReady(status) ==
    /\ wpc = "poll"
    /\ ~WaitTimedOut
    /\ ~CountsAsComplete(Answer(status))
    /\ wpolls' = wpolls + 1
    /\ response' = Answer(status)
    /\ wpc' = "sleep"
    /\ UNCHANGED <<timeout, elapsed, jobDone, outcome, exceptWait>>

\* Variant: the sleep returns and the loop's clock has not moved.
WaitWakeNoTime ==
    /\ wpc = "sleep"
    /\ wpc' = "poll"
    /\ UNCHANGED <<timeout, elapsed, jobDone, response, wpolls, outcome, exceptWait>>

\* line 115: await asyncio.sleep(3) returns, POLL_INTERVAL seconds later.
WaitWake ==
    /\ wpc = "sleep"
    /\ wpc' = "poll"
    /\ elapsed' = Elapse(elapsed, POLL_INTERVAL, timeout)
    /\ UNCHANGED <<timeout, jobDone, response, wpolls, outcome, exceptWait>>

\* The statuses a poll is answered with.
Statuses == {200, 404, 500}

NextWait ==
    \/ \E t \in 0..MaxTimeout : WaitCall(t)
    \/ WaitTick
    \/ WaitJobCompletes
    \/ WaitTimeout
    \/ WaitTransportError
    \/ WaitPollComplete
    \/ \E status \in Statuses : WaitPollNotReady(status)
    \/ WaitWake

SpecWait == Init /\ [][NextWait]_vars

\* Every status request is answered or fails, and every sleep ends: the event
\* loop resumes the coroutine, and the clock of the loop moves with it.
FairWait ==
    /\ WF_vars(WaitTimeout)
    /\ WF_vars(WaitTransportError \/ WaitPollComplete
                 \/ \E status \in Statuses : WaitPollNotReady(status))
    /\ WF_vars(WaitWake)

SpecWaitFair == SpecWait /\ FairWait

\* ------------------------------------------------ process_image_to_video
\* One call of process_image_to_video (src/media_utils.py lines 49-92) made
\* by generate_video_segment (src/long_video.py lines 34-42): the template
\* is materialized, the job is POSTed, and the caller waits or fails.

\* A JSON value: a tagged pair.
Str(s) == <<"str", s>>
Num(n) == <<"int", n>>
Dict(f) == <<"dict", f>>
List(q) == <<"list", q>>

\* The sentinel values of lines 61-71.
SENTINEL_PROMPT == "a video of a beautiful blondie woman doing gymnastics on the floor"
SENTINEL_IMAGE == "combined_opencv_last_frame.png"
\* line 61: value == "<sentinel prompt>"
IsPromptSentinel(v) == v[1] = "str" /\ v[2] = SENTINEL_PROMPT
\* line 63: value in [720, "720", 1280, "1280"]
IsSizeSentinel(v) ==
    \/ v[1] = "int" /\ v[2] \in {720, 1280}
    \/ v[1] = "str" /\ v[2] \in {"720", "1280"}
\* line 69: value in [101, "101"]
IsFramesSentinel(v) ==
    \/ v[1] = "int" /\ v[2] = 101
    \/ v[1] = "str" /\ v[2] = "101"
\* line 71: isinstance(value, str) and value == "combined_opencv_last_frame.png"
IsImageSentinel(v) == v[1] = "str" /\ v[2] = SENTINEL_IMAGE

\* lines 65, 67: key.lower().endswith('width') / ('height'), for the keys used.
EndsWithWidth(key) == key \in {"width", "Width", "empty_latent_width"}
EndsWithHeight(key) == key \in {"height", "Height", "empty_latent_height"}

\* src/config.py lines 43-44 and get_image_dimensions (lines 42-47).
DEFAULT_HORIZONTAL_SIZE == [width |-> 1280, height |-> 720]
DEFAULT_VERTICAL_SIZE == [width |-> 720, height |-> 1280]
TargetSize(is_vertical) ==
    IF is_vertical THEN DEFAULT_VERTICAL_SIZE ELSE DEFAULT_HORIZONTAL_SIZE

\* lines 57-77: update_workflow_params.  A mapping's values are tested
\* against the sentinels and replaced, or else visited; a sequence's items
\* are visited; anything else is left as it is.
RECURSIVE update_workflow_params(_, _)
update_workflow_params(obj, p) ==
    IF obj[1] = "dict"
    THEN Dict([key \in DOMAIN obj[2] |->
            LET value == obj[2][key]
            IN  IF IsPromptSentinel(value) THEN Str(p.prompt)
                ELSE IF IsSizeSentinel(value)
                     THEN IF EndsWithWidth(key) THEN Num(p.size.width)
                          ELSE IF EndsWithHeight(key) THEN Num(p.size.height)
                          ELSE value
                ELSE IF IsFramesSentinel(value) THEN Num(p.n_frames)
                ELSE IF IsImageSentinel(value) THEN Str(p.image)
                ELSE update_workflow_params(value, p)])
    ELSE IF obj[1] = "list"
    THEN List([j \in 1..Len(obj[2]) |-> update_workflow_params(obj[2][j], p)])
    ELSE obj

\* The scalars a template holds, and the keys it holds them under.
TemplateScalars ==
    {Str(SENTINEL_PROMPT), Num(720), Str("720"), Num(1280), Num(101), Str("101"),
     Str(SENTINEL_IMAGE), Str("euler"), Num(5)}
TemplateKeys == {"text", "width", "height", "length", "image"}

\* A template that holds the same scalar in four places: as a value of the
\* top mapping, of a nested mapping, of a mapping inside a sequence, and as
\* an item of that sequence.
TemplateWith(key, scalar) ==
    Dict([k \in {key, "inputs"} |->
            IF k = key THEN scalar
            ELSE Dict([k2 \in {key, "items"} |->
                    IF k2 = key THEN scalar
                    ELSE List(<<scalar, Dict([k3 \in {key} |-> scalar])>>)])])
Templates == {TemplateWith(key, scalar) : key \in TemplateKeys, scalar \in TemplateScalars}

\* The arguments of the call.
PromptTexts == {"a cat walks", "101"}
FrameCounts == {MIN_FRAMES, 101, MAX_FRAMES_PER_SEGMENT}
RunParams ==
    {[prompt |-> pr, image |-> "input_1_temp.jpg", n_frames |-> n,
      size |-> TargetSize(vertical)] :
        pr \in PromptTexts, n \in FrameCounts, vertical \in BOOLEAN}

\* What POST /prompt is answered with.
PostAnswers ==
    {[kind |-> "answer", status |-> st, text |-> tx, prompt_id |-> id] :
        st \in {200, 400, 500}, tx \in {"", "node 6: bad input"}, id \in {None, "job-1"}}

\* lines 51-55: the image and the template are read.
SubCall(t, p) ==
    /\ spc = "idle"
    /\ spc' = "materialize"
    /\ template' = t
    /\ params' = p
    /\ workflow' = t
    /\ UNCHANGED <<post, sret, waited>>
    /\ UNCHANGED exceptSub

\* line 79: update_workflow_params(workflow)
SubMaterialize ==
    /\ spc = "materialize"
    /\ workflow' = update_workflow_params(workflow, params)
    /\ spc' = "post"
    /\ UNCHANGED <<template, params, post, sret, waited>>
    /\ UNCHANGED exceptSub

\* Variant: the failure says nothing of the server's answer.
StatusFailureBare(status, text) ==
    [kind |-> "error", type |-> "Exception", status |-> 0, text |-> "",
     prompt_id |-> None]

\* lines 89-92: Exception(f"Failed to process image: Error: {status} - {text}")
StatusFailure(status, text) ==
    [kind |-> "error", type |-> "Exception", status |-> status, text |-> text,
     prompt_id |-> None]

\* line 92: any other exception of the try block, wrapped.
OtherFailure ==
    [kind |-> "error", type |-> "Exception", status |-> 0, text |-> "",
     prompt_id |-> None]

\* lines 82-92: the POST is answered.
SubPost(answer) ==
    /\ spc = "post"
    /\ post' = answer
    /\ sret' = IF answer.status = 200
               THEN IF answer.prompt_id # None
                    THEN [kind |-> "ok", type |-> "str", status |-> 200, text |-> "",
                          prompt_id |-> answer.prompt_id]
                    ELSE OtherFailure
               ELSE StatusFailure(answer.status, answer.text)
    /\ spc' = "returned"
    /\ UNCHANGED <<template, params, workflow, waited>>
    /\ UNCHANGED exceptSub

\* line 83: requests.post raises; the exception is wrapped (line 92).
SubPostRaises ==
    /\ spc = "post"
    /\ post' = [kind |-> "raised", status |-> 0, text |-> "", prompt_id |-> None]
    /\ sret' = OtherFailure
    /\ spc' = "returned"
    /\ UNCHANGED <<template, params, workflow, waited>>
    /\ UNCHANGED exceptSub

\* generate_video_segment, lines 36-42: with a job id the wait begins.
SubWaitBegins ==
    /\ spc = "returned"
    /\ sret.kind = "ok"
    /\ waited' = TRUE
    /\ spc' = "ended"
    /\ UNCHANGED <<template, params, workflow, post, sret>>
    /\ UNCHANGED exceptSub

\* generate_video_segment, line 36: the exception passes through.
SubFailurePropagates ==
    /\ spc = "returned"
    /\ sret.kind = "error"
    /\ spc' = "ended"
    /\ UNCHANGED <<template, params, workflow, post, sret, waited>>
    /\ UNCHANGED exceptSub

NextSub ==
    \/ \E t \in Templates, p \in RunParams : SubCall(t, p)
    \/ SubMaterialize
    \/ \E answer \in PostAnswers : SubPost(answer)
    \/ SubPostRaises
    \/ SubWaitBegins
    \/ SubFailurePropagates

SpecSub == Init /\ [][NextSub]_vars

\* ------------------------------------------------------ single calls
\* Functions checked one call at a time: the arguments and the world the
\* call sees are in `call`, what it returns or raises is in `ret`.
Unset == [kind |-> "unset"]
ReturnedNone == [kind |-> "None"]
Returned(v) == [kind |-> "value", value |-> v]
Raised(type) == [kind |-> "raised", type |-> type]
NothingElseRuns ==
    /\ PipelineIdle
    /\ files = NoFiles
    /\ WaitIdle /\ PairIdle /\ SubIdle /\ ConcatIdle /\ ChatIdle /\ AdaptIdle /\ ShortIdle

\* ------------------------------------------------------ get_latest_video
\* src/media_utils.py lines 117-143.
MaxMtime == 2

\* line 123: today = "2025-08-12"
today == "2025-08-12"
\* The days a job may run on, and the output root.
Days == {"2025-08-12", "2025-08-13"}
OutputRoot == "."

\* The files the server may have left: one video in the root, one in each
\* day's directory, and a picture in the root.
OutputSlots ==
    {[dir |-> OutputRoot, name |-> "ComfyUI_00001.mp4"],
     [dir |-> OutputRoot, name |-> "ComfyUI_00001.png"]}
    \cup {[dir |-> d, name |-> "ComfyUI_00002.mp4"] : d \in Days}
Listings ==
    {{[dir |-> s.dir, name |-> s.name, mtime |-> m[s]] : s \in {x \in OutputSlots : m[x] > 0}} :
        m \in [OutputSlots -> 0..MaxMtime]}

\* glob('*.mp4') in one directory (lines 131, 135).
IsMp4(name) == name \in {"ComfyUI_00001.mp4", "ComfyUI_00002.mp4"}
GlobMp4(listing, dir) == {f \in listing : f.dir = dir /\ IsMp4(f.name)}

\* date_dir.exists() (line 129): the directory holds something.
DirExists(listing, dir) == \E f \in listing : f.dir = dir

\* lines 126-135: video_files
video_files(listing) ==
    (IF DirExists(listing, today) THEN GlobMp4(listing, today) ELSE {})
        \cup GlobMp4(listing, OutputRoot)

\* line 138: max(video_files, key=st_mtime)
Latest(fs) == {f \in fs : \A g \in fs : g.mtime <= f.mtime}

LatestInputs ==
    {[fn |-> "get_latest_video", day |-> d, listing |-> l] : d \in Days, l \in Listings}

\* lines 137-143
GetLatestVideo ==
    /\ ret = Unset
    /\ call.fn = "get_latest_video"
    /\ IF video_files(call.listing) = {}
       THEN ret' = ReturnedNone
       ELSE \E f \in Latest(video_files(call.listing)) : ret' = Returned(f)
    /\ UNCHANGED call
    /\ UNCHANGED exceptCall

InitLatest == NothingElseRuns /\ call \in LatestInputs /\ ret = Unset
NextLatest == GetLatestVideo
SpecLatest == InitLatest /\ [][NextLatest]_vars

\* ---------------------------------------------------- extract_last_frame
\* src/video_utils.py lines 31-86.  A video is the number of frames that
\* decode (frames) and the number its container reports (reported); the
\* frame at position p (from 0) is named p + 1, and 0 names no frame.
MaxFrames == 3
MaxReported == 8
NoFrame == 0

VideoInputs ==
    {[fn |-> "extract_last_frame", state |-> st, frames |-> 0, reported |-> 0,
      writable |-> TRUE] : st \in {"missing", "unreadable"}}
    \cup {[fn |-> "extract_last_frame", state |-> "video", frames |-> n, reported |-> t,
           writable |-> w] : n \in 0..MaxFrames, t \in 0..MaxReported, w \in BOOLEAN}

\* lines 54-55, 61-62: cap.set(CAP_PROP_POS_FRAMES, p); cap.read()
ReadAt(p, n) == IF p >= 0 /\ p < n THEN p + 1 ELSE NoFrame

\* lines 47-51: read until a read fails, keeping the last frame.
ReadToEnd(n) == n

\* lines 59-64: the positions tried after the direct seek failed.
Offsets == <<2, 3, 4, 5>>
RECURSIVE TryOffsets(_, _, _)
TryOffsets(j, total_frames, n) ==
    IF j > Len(Offsets) THEN NoFrame
    ELSE IF total_frames - Offsets[j] >= 0
              /\ ReadAt(total_frames - Offsets[j], n) # NoFrame
         THEN ReadAt(total_frames - Offsets[j], n)
         ELSE TryOffsets(j + 1, total_frames, n)

\* lines 42-64: the frame the function holds after the try block.
LastFrame(total_frames, n) ==
    IF total_frames <= 0 THEN ReadToEnd(n)
    ELSE IF ReadAt(total_frames - 1, n) # NoFrame THEN ReadAt(total_frames - 1, n)
    ELSE TryOffsets(1, total_frames, n)

\* lines 31-86
ExtractLastFrame ==
    /\ ret = Unset
    /\ call.fn = "extract_last_frame"
    /\ ret' = IF call.state = "missing" THEN Raised("FileNotFoundError")
              ELSE IF call.state = "unreadable" THEN Raised("ValueError")
              ELSE IF LastFrame(call.reported, call.frames) = NoFrame
                   THEN Raised("ValueError")
              ELSE IF ~call.writable THEN Raised("ValueError")
              ELSE Returned(LastFrame(call.reported, call.frames))
    /\ UNCHANGED call
    /\ UNCHANGED exceptCall

InitLastFrame == NothingElseRuns /\ call \in VideoInputs /\ ret = Unset
NextLastFrame == ExtractLastFrame
SpecLastFrame == InitLastFrame /\ [][NextLastFrame]_vars

\* ---------------------------------------------------- concatenate_videos
\* src/video_utils.py lines 89-138, one call.  What a path holds is a record:
\* state "missing", "unreadable" (a file no capture opens) or "video", with
\* the width, height and number of the frames that cap.read() yields.
MaxPaths == 3
VideoPaths == {"seg_0.mp4", "seg_1.mp4", "seg_2.mp4"}
OnDisk ==
    {[state |-> "missing", width |-> 0, height |-> 0, count |-> 0],
     [state |-> "unreadable", width |-> 0, height |-> 0, count |-> 0],
     [state |-> "video", width |-> 1280, height |-> 720, count |-> 1],
     [state |-> "video", width |-> 720, height |-> 1280, count |-> 2]}

\* line 104: target_fps or 20.0
DefaultFps == 20
OutputFps(target_fps) == IF target_fps = 0 THEN DefaultFps ELSE target_fps

\* ConcatCall: the arguments, and the disk as the call finds it.
ConcatCall(paths, d) ==
    /\ cpc = "idle"
    /\ cpc' = "count"
    /\ video_paths' = paths
    /\ disk' = d
    /\ UNCHANGED <<output, cvideo, cret>>
    /\ UNCHANGED exceptConcat

\* lines 91-92
ConcatTooFew ==
    /\ cpc = "count"
    /\ Len(video_paths) < 2
    /\ cret' = Raised("ValueError")
    /\ cpc' = "done"
    /\ UNCHANGED <<video_paths, disk, output, cvideo>>
    /\ UNCHANGED exceptConcat

\* line 91, the test fails
ConcatEnough ==
    /\ cpc = "count"
    /\ Len(video_paths) >= 2
    /\ cpc' = "exists"
    /\ UNCHANGED <<video_paths, disk, output, cvideo, cret>>
    /\ UNCHANGED exceptConcat

\* Variant: only the first path is looked for.
FirstExists(paths, d) == d[paths[1]].state # "missing"

\* lines 95-97: os.path.exists of every path
AllExist(paths, d) == \A k \in 1..Len(paths) : d[paths[k]].state # "missing"

\* lines 95-97
ConcatMissing ==
    /\ cpc = "exists"
    /\ ~AllExist(video_paths, disk)
    /\ cret' = Raised("FileNotFoundError")
    /\ cpc' = "done"
    /\ UNCHANGED <<video_paths, disk, output, cvideo>>
    /\ UNCHANGED exceptConcat

\* lines 95-97, no path is missing
ConcatAllExist ==
    /\ cpc = "exists"
    /\ AllExist(video_paths, disk)
    /\ cpc' = "info"
    /\ UNCHANGED <<video_paths, disk, output, cvideo, cret>>
    /\ UNCHANGED exceptConcat

\* lines 100-102: get_video_info of the first video is None
ConcatFirstUnreadable ==
    /\ cpc = "info"
    /\ disk[video_paths[1]].state # "video"
    /\ cret' = Raised("ValueError")
    /\ cpc' = "done"
    /\ UNCHANGED <<video_paths, disk, output, cvideo>>
    /\ UNCHANGED exceptConcat

\* lines 104-110: the writer is created with the first video's size
ConcatCreateWriter(target_fps) ==
    /\ cpc = "info"
    /\ disk[video_paths[1]].state = "video"
    /\ output' = [created |-> TRUE,
                  width |-> disk[video_paths[1]].width,
                  height |-> disk[video_paths[1]].height,
                  fps |-> OutputFps(target_fps),
                  frames |-> << >>]
    /\ cvideo' = 1
    /\ cpc' = "write"
    /\ UNCHANGED <<video_paths, disk, cret>>
    /\ UNCHANGED exceptConcat

\* lines 112-113: the writer did not open
ConcatWriterFails ==
    /\ cpc = "info"
    /\ disk[video_paths[1]].state = "video"
    /\ cret' = Raised("ValueError")
    /\ cpc' = "done"
    /\ UNCHANGED <<video_paths, disk, output, cvideo>>
    /\ UNCHANGED exceptConcat

\* Variant: the frame is written as it was read.
AsRead(frame, width, height) == frame

\* lines 125-126: cv2.resize(frame, (output_width, output_height))
Resized(frame, width, height) ==
    [src |-> frame.src, n |-> frame.n, width |-> width, height |-> height]

\* lines 119-122: the frames cap.read() yields for one path, in order
FramesOf(path, d) ==
    [n \in 1..d[path].count |->
        [src |-> path, n |-> n, width |-> d[path].width, height |-> d[path].height]]

\* lines 116-130: one video of the loop, read to its end and written
ConcatWriteVideo ==
    /\ cpc = "write"
    /\ cvideo <= Len(video_paths)
    /\ LET read == FramesOf(video_paths[cvideo], disk)
       IN  output' = [output EXCEPT !.frames =
                @ \o [n \in 1..Len(read) |-> Resized(read[n], output.width, output.height)]]
    /\ cvideo' = cvideo + 1
    /\ UNCHANGED <<cpc, video_paths, disk, cret>>
    /\ UNCHANGED exceptConcat

\* line 132: return True
ConcatReturn ==
    /\ cpc = "write"
    /\ cvideo > Len(video_paths)
    /\ cret' = Returned(TRUE)
    /\ cpc' = "done"
    /\ UNCHANGED <<video_paths, disk, output, cvideo>>
    /\ UNCHANGED exceptConcat

PathLists == UNION {[1..n -> VideoPaths] : n \in 0..MaxPaths}

NextConcat ==
    \/ \E paths \in PathLists, d \in [VideoPaths -> OnDisk] : ConcatCall(paths, d)
    \/ ConcatTooFew
    \/ ConcatEnough
    \/ ConcatMissing
    \/ ConcatAllExist
    \/ ConcatFirstUnreadable
    \/ \E target_fps \in {0, 24} : ConcatCreateWriter(target_fps)
    \/ ConcatWriterFails
    \/ ConcatWriteVideo
    \/ ConcatReturn

SpecConcat == Init /\ [][NextConcat]_vars

\* ------------------------------------------- parse_multi_prompt_message
\* src/bot.py lines 62-102.  A text is a sequence of characters.
MaxLines == 4
MaxLinesParsed == 100

\* The lines a caption is made of.
LineChoices ==
    {<< >>, <<" ">>, <<"a">>, <<" ", "b", " ">>,
     <<"1">>, <<"2">>, <<"1", "2", "5">>, <<"1", "2", "6">>,
     <<" ", "2", " ">>, <<"+", "2">>, <<"2", "a">>}

RECURSIVE Join(_)
Join(lines) ==
    IF Len(lines) = 0 THEN << >>
    ELSE IF Len(lines) = 1 THEN lines[1]
    ELSE lines[1] \o <<"\n">> \o Join(Tail(lines))
Captions == {Join(lines) : lines \in UNION {[1..n -> LineChoices] : n \in 0..MaxLines}}

\* line 69: message_text.split('\n')
RECURSIVE SplitFrom(_, _, _)
SplitFrom(s, k, current) ==
    IF k > Len(s) THEN <<current>>
    ELSE IF s[k] = "\n" THEN <<current>> \o SplitFrom(s, k + 1, << >>)
    ELSE SplitFrom(s, k + 1, Append(current, s[k]))
Split(s) == SplitFrom(s, 1, << >>)

\* line 69: line.strip()
RECURSIVE LStrip(_)
LStrip(s) == IF s # << >> /\ s[1] = " " THEN LStrip(Tail(s)) ELSE s
RECURSIVE RStrip(_)
RStrip(s) ==
    IF s # << >> /\ s[Len(s)] = " " THEN RStrip(SubSeq(s, 1, Len(s) - 1)) ELSE s
Strip(s) == RStrip(LStrip(s))

\* line 69: the stripped lines that are not empty
RECURSIVE StrippedNonBlank(_)
StrippedNonBlank(lines) ==
    IF lines = << >> THEN << >>
    ELSE IF Strip(Head(lines)) # << >>
         THEN <<Strip(Head(lines))>> \o StrippedNonBlank(Tail(lines))
         ELSE StrippedNonBlank(Tail(lines))

\* line 81: int(text) -- an optional sign and decimal digits, or ValueError.
Digits == {"0", "1", "2", "3", "4", "5", "6", "7", "8", "9"}
DigitValue(c) ==
    CASE c = "0" -> 0 [] c = "1" -> 1 [] c = "2" -> 2 [] c = "3" -> 3 [] c = "4" -> 4
      [] c = "5" -> 5 [] c = "6" -> 6 [] c = "7" -> 7 [] c = "8" -> 8 [] c = "9" -> 9
Unsigned(s) == IF s # << >> /\ s[1] \in {"+", "-"} THEN Tail(s) ELSE s
IsInt(s) ==
    LET body == Unsigned(Strip(s))
    IN  body # << >> /\ \A k \in 1..Len(body) : body[k] \in Digits
RECURSIVE DecimalValue(_)
DecimalValue(body) ==
    IF body = << >> THEN 0
    ELSE 10 * DecimalValue(SubSeq(body, 1, Len(body) - 1)) + DigitValue(body[Len(body)])
IntOf(s) ==
    LET t == Strip(s)
    IN  IF t[1] = "-" THEN 0 - DecimalValue(Unsigned(t)) ELSE DecimalValue(Unsigned(t))

\* Variant: a segment of one frame is let through.
ValidFramesFromOne(frames) == 1 <= frames /\ frames <= MAX_FRAMES_PER_SEGMENT

\* line 83: 2 <= frames <= MAX_FRAMES_PER_SEGMENT
ValidFrames(frames) == 2 <= frames /\ frames <= MAX_FRAMES_PER_SEGMENT

\* lines 78-97: the loop over the pairs, from line k on.
RECURSIVE ParsePairs(_, _, _, _)
ParsePairs(lines, k, total_frames, segments) ==
    IF k > Len(lines) THEN Returned(segments)
    ELSE IF ~IsInt(lines[k + 1]) THEN ReturnedNone
    ELSE IF ~ValidFrames(IntOf(lines[k + 1])) THEN ReturnedNone
    ELSE IF total_frames + IntOf(lines[k + 1]) > MAX_TOTAL_FRAMES THEN ReturnedNone
    ELSE ParsePairs(lines, k + 2, total_frames + IntOf(lines[k + 1]),
                    Append(segments, <<lines[k], IntOf(lines[k + 1])>>))

\* lines 62-102
parse_multi_prompt_message(message_text) ==
    LET lines == StrippedNonBlank(Split(message_text))
    IN  IF Len(lines) % 2 # 0 \/ Len(lines) = 0 \/ Len(lines) > MaxLinesParsed
        THEN ReturnedNone
        ELSE ParsePairs(lines, 1, 0, << >>)

ParseInputs == {[fn |-> "parse_multi_prompt_message", text |-> c] : c \in Captions}

ParseCaption ==
    /\ ret = Unset
    /\ call.fn = "parse_multi_prompt_message"
    /\ ret' = parse_multi_prompt_message(call.text)
    /\ UNCHANGED call
    /\ UNCHANGED exceptCall

InitParse == NothingElseRuns /\ call \in ParseInputs /\ ret = Unset
NextParse == ParseCaption
SpecParse == InitParse /\ [][NextParse]_vars

\* ------------------------------------------------------ message_handler
\* src/bot.py lines 104-388, for one authorized user in the long-video flow.
\* A text is a sequence of characters; a button's label is one character.
MaxCollected == 82
DEFAULT_SEGMENT_FRAMES == 100

LongVideoButton == <<"Long Video">>
ProcessVideoButton == <<"Process Video">>
AddAnotherButton == <<"Add Another Segment">>

Message(text, media) == [text |-> text, media |-> media]
msgLong == Message(LongVideoButton, FALSE)
msgProcess == Message(ProcessVideoButton, FALSE)
msgAdd == Message(AddAnotherButton, FALSE)
msg125 == Message(<<"1", "2", "5">>, FALSE)
msg126 == Message(<<"1", "2", "6">>, FALSE)
msgText == Message(<<"a">>, FALSE)
msgImage == Message(<< >>, TRUE)
msgCaptioned == Message(Join(<<<<"a">>, <<"1", "2", "5">>, <<"b">>, <<"2">>>>), TRUE)
Messages == {msgLong, msgProcess, msgAdd, msg125, msg126, msgText, msgImage, msgCaptioned}

\* A dict with d[key] = value.
SetKey(d, key, value) ==
    [k \in DOMAIN d \cup {key} |-> IF k = key THEN value ELSE d[k]]

NotHanded == [called |-> FALSE, segments |-> << >>]
DownloadedImage == "input_1_temp.jpg"

\* lines 117, 125-126: media with a caption that parses into segments
IsCaptioned(m) ==
    /\ m.media
    /\ m.text # << >>
    /\ parse_multi_prompt_message(m.text).kind = "value"

\* lines 146-154
CaptionData(parsed) ==
    [mode |-> "long", image_path |-> DownloadedImage, prompt |-> parsed[1][1],
     segments |-> [k \in 1..Len(parsed) |-> [prompt |-> parsed[k][1], frames |-> parsed[k][2]]]]

\* process_long_video, lines 420-448: LongVideoGenerator(image_path=...,
\* segments=..., default_prompt=...) does not fit the class's __init__ (src/
\* long_video.py line 18); the TypeError is caught at line 445 and the
\* conversation state is left as it is.
process_long_video(data) == [called |-> TRUE, segments |-> data["segments"]]

\* lines 117-158
ChatCaptioned(u, m) ==
    /\ is_authorized(u)
    /\ IsCaptioned(m)
    /\ USER_DATA' = [USER_DATA EXCEPT ![u] = CaptionData(parse_multi_prompt_message(m.text).value)]
    /\ sender' = u
    /\ downloaded' = TRUE
    /\ handed' = process_long_video(USER_DATA'[u])
    /\ UNCHANGED WAITING_FOR
    /\ UNCHANGED exceptChat

\* lines 128-133, 160-166: the download fails
ChatCaptionedDownloadFails(u, m) ==
    /\ is_authorized(u)
    /\ IsCaptioned(m)
    /\ sender' = u
    /\ downloaded' = TRUE
    /\ handed' = NotHanded
    /\ UNCHANGED <<WAITING_FOR, USER_DATA>>
    /\ UNCHANGED exceptChat

\* lines 107-112: the sender is not in the whitelist (start_handler, lines
\* 56-58, answers such a sender and does nothing else)
ChatUnauthorized(u, m) ==
    /\ ~is_authorized(u)
    /\ sender' = u
    /\ downloaded' = FALSE
    /\ handed' = NotHanded
    /\ UNCHANGED <<WAITING_FOR, USER_DATA>>
    /\ UNCHANGED exceptChat

\* lines 169-174
ChatButton(u, m) ==
    /\ is_authorized(u)
    /\ ~IsCaptioned(m)
    /\ m.text = LongVideoButton
    /\ WAITING_FOR' = [WAITING_FOR EXCEPT ![u] = "prompt"]
    /\ USER_DATA' = [USER_DATA EXCEPT ![u] = [k \in {"mode"} |-> "long"]]
    /\ sender' = u
    /\ downloaded' = FALSE
    /\ handed' = NotHanded
    /\ UNCHANGED exceptChat

\* The message reaches the dispatch on the state (line 181).
Dispatched(u, m, state) ==
    /\ is_authorized(u)
    /\ ~IsCaptioned(m)
    /\ m.text # LongVideoButton
    /\ WAITING_FOR[u] = state

\* lines 176-179
ChatMenu(u, m) ==
    /\ Dispatched(u, m, None)
    /\ sender' = u
    /\ downloaded' = FALSE
    /\ handed' = NotHanded
    /\ UNCHANGED <<WAITING_FOR, USER_DATA>>
    /\ UNCHANGED exceptChat

\* lines 184-189
ChatPrompt(u, m) ==
    /\ Dispatched(u, m, "prompt")
    /\ USER_DATA' = [USER_DATA EXCEPT ![u] = SetKey(USER_DATA[u], "prompt", m.text)]
    /\ WAITING_FOR' = [WAITING_FOR EXCEPT ![u] = "media"]
    /\ sender' = u
    /\ downloaded' = FALSE
    /\ handed' = NotHanded
    /\ UNCHANGED exceptChat

\* lines 191-197 (no media) and 199-205, 235-240 (the download fails)
ChatMediaRefused(u, m) ==
    /\ Dispatched(u, m, "media")
    /\ sender' = u
    /\ downloaded' = m.media
    /\ handed' = NotHanded
    /\ UNCHANGED <<WAITING_FOR, USER_DATA>>
    /\ UNCHANGED exceptChat

\* lines 199-233, mode 'long'
ChatMedia(u, m) ==
    /\ Dispatched(u, m, "media")
    /\ m.media
    /\ USER_DATA' = [USER_DATA EXCEPT ![u] = SetKey(SetKey(SetKey(USER_DATA[u], "image_path", DownloadedImage),
                                  "segments", << >>), "total_frames", 0)]
    /\ WAITING_FOR' = [WAITING_FOR EXCEPT ![u] = "segment_setup"]
    /\ sender' = u
    /\ downloaded' = TRUE
    /\ handed' = NotHanded
    /\ UNCHANGED exceptChat

\* line 256: int(event.text) if event.text.strip() else DEFAULT_SEGMENT_FRAMES,
\* and line 257; FALSE stands for the ValueError.
SetupFramesOk(text) ==
    IF Strip(text) = << >> THEN ValidFrames(DEFAULT_SEGMENT_FRAMES)
    ELSE IsInt(text) /\ ValidFrames(IntOf(text))
SetupFrames(text) ==
    IF Strip(text) = << >> THEN DEFAULT_SEGMENT_FRAMES ELSE IntOf(text)

\* lines 255-258, 270-275: ValueError
ChatSetupInvalid(u, m) ==
    /\ Dispatched(u, m, "segment_setup")
    /\ ~SetupFramesOk(m.text)
    /\ sender' = u
    /\ downloaded' = FALSE
    /\ handed' = NotHanded
    /\ UNCHANGED <<WAITING_FOR, USER_DATA>>
    /\ UNCHANGED exceptChat

\* line 262: USER_DATA[u][user_id]['total_frames'] of data that has none
ChatSetupKeyError(u, m) ==
    /\ Dispatched(u, m, "segment_setup")
    /\ SetupFramesOk(m.text)
    /\ "total_frames" \notin DOMAIN USER_DATA[u]
    /\ sender' = u
    /\ downloaded' = FALSE
    /\ handed' = NotHanded
    /\ UNCHANGED <<WAITING_FOR, USER_DATA>>
    /\ UNCHANGED exceptChat

\* lines 262-269
ChatSetupTooMany(u, m) ==
    /\ Dispatched(u, m, "segment_setup")
    /\ SetupFramesOk(m.text)
    /\ "total_frames" \in DOMAIN USER_DATA[u]
    /\ USER_DATA[u]["total_frames"] + SetupFrames(m.text) > MAX_TOTAL_FRAMES
    /\ sender' = u
    /\ downloaded' = FALSE
    /\ handed' = NotHanded
    /\ UNCHANGED <<WAITING_FOR, USER_DATA>>
    /\ UNCHANGED exceptChat

\* lines 278-300: the first segment takes the initial prompt
ChatSetupFirst(u, m) ==
    /\ Dispatched(u, m, "segment_setup")
    /\ SetupFramesOk(m.text)
    /\ "total_frames" \in DOMAIN USER_DATA[u]
    /\ USER_DATA[u]["total_frames"] + SetupFrames(m.text) <= MAX_TOTAL_FRAMES
    /\ USER_DATA[u]["segments"] = << >>
    /\ USER_DATA' = [USER_DATA EXCEPT ![u] =
         SetKey(SetKey(SetKey(USER_DATA[u], "temp_frames", SetupFrames(m.text)),
                       "segments", <<[frames |-> SetupFrames(m.text),
                                      prompt |-> USER_DATA[u]["prompt"]]>>),
                "total_frames", SetupFrames(m.text))]
    /\ WAITING_FOR' = [WAITING_FOR EXCEPT ![u] = "segment_prompt"]
    /\ sender' = u
    /\ downloaded' = FALSE
    /\ handed' = NotHanded
    /\ UNCHANGED exceptChat

\* lines 278-282, 301-302: a later segment waits for its prompt
ChatSetupNext(u, m) ==
    /\ Dispatched(u, m, "segment_setup")
    /\ SetupFramesOk(m.text)
    /\ "total_frames" \in DOMAIN USER_DATA[u]
    /\ USER_DATA[u]["total_frames"] + SetupFrames(m.text) <= MAX_TOTAL_FRAMES
    /\ USER_DATA[u]["segments"] # << >>
    /\ USER_DATA' = [USER_DATA EXCEPT ![u] = SetKey(USER_DATA[u], "temp_frames", SetupFrames(m.text))]
    /\ WAITING_FOR' = [WAITING_FOR EXCEPT ![u] = "segment_prompt"]
    /\ sender' = u
    /\ downloaded' = FALSE
    /\ handed' = NotHanded
    /\ UNCHANGED exceptChat

\* lines 304-307
ChatProcess(u, m) ==
    /\ Dispatched(u, m, "segment_prompt")
    /\ m.text = ProcessVideoButton
    /\ sender' = u
    /\ downloaded' = FALSE
    /\ handed' = process_long_video(USER_DATA[u])
    /\ UNCHANGED <<WAITING_FOR, USER_DATA>>
    /\ UNCHANGED exceptChat

\* lines 308-319 (line 311 raises KeyError on data without total_frames,
\* after the state was set)
ChatAddAnother(u, m) ==
    /\ Dispatched(u, m, "segment_prompt")
    /\ m.text = AddAnotherButton
    /\ WAITING_FOR' = [WAITING_FOR EXCEPT ![u] = "segment_setup"]
    /\ sender' = u
    /\ downloaded' = FALSE
    /\ handed' = NotHanded
    /\ UNCHANGED USER_DATA
    /\ UNCHANGED exceptChat

\* line 323: USER_DATA[u][user_id]['temp_frames'] of data that has none
ChatFreeTextKeyError(u, m) ==
    /\ Dispatched(u, m, "segment_prompt")
    /\ m.text \notin {ProcessVideoButton, AddAnotherButton}
    /\ "temp_frames" \notin DOMAIN USER_DATA[u]
    /\ sender' = u
    /\ downloaded' = FALSE
    /\ handed' = NotHanded
    /\ UNCHANGED <<WAITING_FOR, USER_DATA>>
    /\ UNCHANGED exceptChat

\* Variant: the counter is left as it was.
AddedTotalStale(data) == data["total_frames"]

\* line 330: USER_DATA[user_id]['total_frames'] += frames
AddedTotal(data) == data["total_frames"] + data["temp_frames"]

\* lines 321-345: any other text is the prompt of one more segment of
\* temp_frames frames
ChatFreeText(u, m) ==
    /\ Dispatched(u, m, "segment_prompt")
    /\ m.text \notin {ProcessVideoButton, AddAnotherButton}
    /\ "temp_frames" \in DOMAIN USER_DATA[u]
    /\ Len(USER_DATA[u]["segments"]) < MaxCollected
    /\ USER_DATA' = [USER_DATA EXCEPT ![u] =
         SetKey(SetKey(USER_DATA[u], "segments",
                       Append(USER_DATA[u]["segments"],
                              [frames |-> USER_DATA[u]["temp_frames"], prompt |-> m.text])),
                "total_frames", AddedTotal(USER_DATA[u]))]
    /\ sender' = u
    /\ downloaded' = FALSE
    /\ handed' = NotHanded
    /\ UNCHANGED WAITING_FOR
    /\ UNCHANGED exceptChat

\* The messages the user sends, by what the bot waits for: one prompt text,
\* and the default frame count for the first segment only.
Sendable(u) ==
    IF WAITING_FOR[u] = "segment_prompt"
    THEN {msgProcess, msgAdd, msgText, msgLong, msgCaptioned}
    ELSE IF WAITING_FOR[u] = "segment_setup"
    THEN {msg125, msg126, msgText, msgLong}
            \cup (IF "segments" \in DOMAIN USER_DATA[u] /\ USER_DATA[u]["segments"] = << >>
                  THEN {msgImage} ELSE {})
    ELSE {msgText, msgImage, msgLong, msgCaptioned}

NextChat ==
    \/ \E u \in Users : \E m \in Messages : ChatUnauthorized(u, m)
    \/ \E u \in Users : \E m \in Sendable(u) : ChatCaptioned(u, m)
    \/ \E u \in Users : \E m \in Sendable(u) : ChatCaptionedDownloadFails(u, m)
    \/ \E u \in Users : \E m \in Sendable(u) : ChatButton(u, m)
    \/ \E u \in Users : \E m \in Sendable(u) : ChatMenu(u, m)
    \/ \E u \in Users : \E m \in Sendable(u) : ChatPrompt(u, m)
    \/ \E u \in Users : \E m \in Sendable(u) : ChatMediaRefused(u, m)
    \/ \E u \in Users : \E m \in Sendable(u) : ChatMedia(u, m)
    \/ \E u \in Users : \E m \in Sendable(u) : ChatSetupInvalid(u, m)
    \/ \E u \in Users : \E m \in Sendable(u) : ChatSetupKeyError(u, m)
    \/ \E u \in Users : \E m \in Sendable(u) : ChatSetupTooMany(u, m)
    \/ \E u \in Users : \E m \in Sendable(u) : ChatSetupFirst(u, m)
    \/ \E u \in Users : \E m \in Sendable(u) : ChatSetupNext(u, m)
    \/ \E u \in Users : \E m \in Sendable(u) : ChatProcess(u, m)
    \/ \E u \in Users : \E m \in Sendable(u) : ChatAddAnother(u, m)
    \/ \E u \in Users : \E m \in Sendable(u) : ChatFreeTextKeyError(u, m)
    \/ \E u \in Users : \E m \in Sendable(u) : ChatFreeText(u, m)

SpecChat == Init /\ [][NextChat]_vars

\* ------------------------------------------------- get_image_dimensions
\* src/media_utils.py lines 42-47, one call on an image of some size and
\* colour mode.
MaxSide == 8
ImageInputs ==
    {[fn |-> "get_image_dimensions", width |-> w, height |-> h, mode |-> md] :
        w \in 1..MaxSide, h \in 1..MaxSide, md \in {"RGB", "L"}}

\* Variant: a square image counts as vertical.
IsVerticalOrSquare(width, height) == height >= width

\* line 46: is_vertical = height > width
IsVertical(width, height) == height > width

\* lines 44-47
GetImageDimensions ==
    /\ ret = Unset
    /\ call.fn = "get_image_dimensions"
    /\ ret' = Returned(TargetSize(IsVertical(call.width, call.height)))
    /\ UNCHANGED call
    /\ UNCHANGED exceptCall

InitDims == NothingElseRuns /\ call \in ImageInputs /\ ret = Unset
NextDims == GetImageDimensions
SpecDims == InitDims /\ [][NextDims]_vars

\* --------------------------------------------- adaptive content creation
\* src/adaptive_bot_integration.py: handle_adaptive_create (lines 144-181),
\* run_adaptive_content_creation (183-248), handle_stop_adaptive_agent
\* (462-472), for one user.  Handlers are coroutines of one event loop: a
\* step runs from one await to the next.

\* task.done()
Ended == {"noplan", "completed", "failed", "error", "cancelled"}
done(t) == tpc[t] \in Ended
\* The task is created and has not ended.
InFlight(t) == tpc[t] \in {"plan", "content", "cancelling"}

\* line 162: user_id in ADAPTIVE_AGENT_TASKS and not ADAPTIVE_AGENT_TASKS[user_id].done()
HasRunningTask == ADAPTIVE_AGENT_TASKS # None /\ ~done(ADAPTIVE_AGENT_TASKS)

\* lines 162-164: a task is running; the handler answers and returns
CreateRefused(h) ==
    /\ hpc[h] = "idle"
    /\ HasRunningTask
    /\ hpc' = [hpc EXCEPT ![h] = "done"]
    /\ UNCHANGED <<tpc, ADAPTIVE_AGENT_TASKS, ADAPTIVE_AGENT_STATE>>
    /\ UNCHANGED exceptAdapt

\* lines 162-166: no task is running; the handler awaits event.respond
CreateChecked(h) ==
    /\ hpc[h] = "idle"
    /\ ~HasRunningTask
    /\ hpc' = [hpc EXCEPT ![h] = "respond"]
    /\ UNCHANGED <<tpc, ADAPTIVE_AGENT_TASKS, ADAPTIVE_AGENT_STATE>>
    /\ UNCHANGED exceptAdapt

\* lines 169-181: the task is created and recorded, the status is 'creating'
CreateTask(h) ==
    /\ hpc[h] = "respond"
    /\ hpc' = [hpc EXCEPT ![h] = "done"]
    /\ tpc' = [tpc EXCEPT ![h] = "plan"]
    /\ ADAPTIVE_AGENT_TASKS' = h
    /\ ADAPTIVE_AGENT_STATE' = "creating"
    /\ UNCHANGED exceptAdapt

\* lines 245-248: finally: if user_id in ADAPTIVE_AGENT_TASKS: del ...
TaskFinally == ADAPTIVE_AGENT_TASKS' = None

\* lines 191-195: no plan; return
TaskNoPlan(t) ==
    /\ tpc[t] = "plan"
    /\ tpc' = [tpc EXCEPT ![t] = "noplan"]
    /\ TaskFinally
    /\ UNCHANGED <<hpc, ADAPTIVE_AGENT_STATE>>
    /\ UNCHANGED exceptAdapt

\* lines 191-197: a plan
TaskPlanned(t) ==
    /\ tpc[t] = "plan"
    /\ tpc' = [tpc EXCEPT ![t] = "content"]
    /\ UNCHANGED <<hpc, ADAPTIVE_AGENT_TASKS, ADAPTIVE_AGENT_STATE>>
    /\ UNCHANGED exceptAdapt

\* lines 200-234: content created
TaskCompleted(t) ==
    /\ tpc[t] = "content"
    /\ tpc' = [tpc EXCEPT ![t] = "completed"]
    /\ ADAPTIVE_AGENT_STATE' = "completed"
    /\ TaskFinally
    /\ UNCHANGED hpc
    /\ UNCHANGED exceptAdapt

\* lines 235-237: no content
TaskFailed(t) ==
    /\ tpc[t] = "content"
    /\ tpc' = [tpc EXCEPT ![t] = "failed"]
    /\ ADAPTIVE_AGENT_STATE' = "failed"
    /\ TaskFinally
    /\ UNCHANGED hpc
    /\ UNCHANGED exceptAdapt

\* lines 239-243: an exception of either step
TaskRaises(t) ==
    /\ tpc[t] \in {"plan", "content"}
    /\ tpc' = [tpc EXCEPT ![t] = "error"]
    /\ ADAPTIVE_AGENT_STATE' = "error"
    /\ TaskFinally
    /\ UNCHANGED hpc
    /\ UNCHANGED exceptAdapt

\* lines 464-468: '/ai stop' cancels the recorded task
StopCancels ==
    /\ HasRunningTask
    /\ tpc[ADAPTIVE_AGENT_TASKS] # "cancelling"
    /\ tpc' = [tpc EXCEPT ![ADAPTIVE_AGENT_TASKS] = "cancelling"]
    /\ UNCHANGED <<hpc, ADAPTIVE_AGENT_TASKS, ADAPTIVE_AGENT_STATE>>
    /\ UNCHANGED exceptAdapt

\* CancelledError at the task's await: not an Exception, so only the finally
\* block (lines 245-248) runs
TaskCancelled(t) ==
    /\ tpc[t] = "cancelling"
    /\ tpc' = [tpc EXCEPT ![t] = "cancelled"]
    /\ TaskFinally
    /\ UNCHANGED <<hpc, ADAPTIVE_AGENT_STATE>>
    /\ UNCHANGED exceptAdapt

NextAdapt ==
    \/ \E h \in Handlers : CreateRefused(h)
    \/ \E h \in Handlers : CreateChecked(h)
    \/ \E h \in Handlers : CreateTask(h)
    \/ \E t \in Handlers : TaskNoPlan(t)
    \/ \E t \in Handlers : TaskPlanned(t)
    \/ \E t \in Handlers : TaskCompleted(t)
    \/ \E t \in Handlers : TaskFailed(t)
    \/ \E t \in Handlers : TaskRaises(t)
    \/ StopCancels
    \/ \E t \in Handlers : TaskCancelled(t)

SpecAdapt == Init /\ [][NextAdapt]_vars

\* --------------------------------------------------- process_short_video
\* src/bot.py, lines 390-418: the image is handed to the render server by
\* process_image_to_video (the actions SubCall, SubMaterialize, SubPost and
\* SubPostRaises above), which returns once the job is queued.

\* lines 401-409: the job id is back; the image is removed, the state reset
ShortCleanUp ==
    /\ spc = "returned"
    /\ sret.kind = "ok"
    /\ input_image' = "removed"
    /\ spc' = "ended"
    /\ UNCHANGED <<template, params, workflow, post, sret, waited, job_complete>>
    /\ UNCHANGED exceptShort

\* lines 415-418: the exception is reported; the image stays
ShortFails ==
    /\ spc = "returned"
    /\ sret.kind = "error"
    /\ spc' = "ended"
    /\ UNCHANGED <<template, params, workflow, post, sret, waited>>
    /\ UNCHANGED shortVars
    /\ UNCHANGED exceptShort

\* The render server finishes the queued job: its id appears in /history
\* (src/media_utils.py, lines 108-110).
ShortJobCompletes ==
    /\ sret.kind = "ok"
    /\ ~job_complete
    /\ job_complete' = TRUE
    /\ UNCHANGED input_image
    /\ UNCHANGED subVars
    /\ UNCHANGED exceptShort

NextShort ==
    \/ \E t \in Templates, p \in RunParams : SubCall(t, p)
    \/ SubMaterialize
    \/ \E answer \in PostAnswers : SubPost(answer)
    \/ SubPostRaises
    \/ ShortCleanUp
    \/ ShortFails
    \/ ShortJobCompletes

SpecShort == Init /\ [][NextShort]_vars

\* ------------------------------------------------------- exception types
\* The Python class of each exception the pipeline lets through to its
\* caller, by the module that raises it.

\* src/media_utils.py: line 51/54 (Image.open, open: OSError), line 92
\* (Exception), line 102 (TimeoutError), line 104 (requests: ConnectionError),
\* line 115 (asyncio: CancelledError).
MediaUtilsErrorType(error) ==
    CASE error = "Failed to read image or workflow" -> "OSError"
      [] error = "Failed to process image" -> "Exception"
      [] error = "TimeoutError" -> "TimeoutError"
      [] error = "ConnectionError" -> "ConnectionError"
      [] error = "CancelledError" -> "CancelledError"
      [] OTHER -> None

\* src/long_video.py: line 49 (Exception), line 68 (shutil.copy2: OSError),
\* line 117 (video_segments[0]: IndexError), line 154 (Exception).
LongVideoErrorType(error) ==
    CASE error = "No output video found" -> "Exception"
      [] error = "copy failed" -> "OSError"
      [] error = "IndexError" -> "IndexError"
      [] error = "Prompt is required" -> "Exception"
      [] OTHER -> None

\* src/video_utils.py: line 67 (ValueError), line 135 (Exception).
VideoUtilsErrorType(error) ==
    CASE error = "Could not read the last frame" -> "ValueError"
      [] error = "Error during video concatenation" -> "Exception"
      [] OTHER -> None

ErrorType(error) ==
    IF MediaUtilsErrorType(error) # None THEN MediaUtilsErrorType(error)
    ELSE IF LongVideoErrorType(error) # None THEN LongVideoErrorType(error)
    ELSE VideoUtilsErrorType(error)

\* Every exception the model raises.
ErrorLabels ==
    {"Failed to read image or workflow", "Failed to process image",
     "TimeoutError", "ConnectionError", "CancelledError",
     "No output video found", "copy failed", "IndexError", "Prompt is required",
     "Could not read the last frame", "Error during video concatenation"}

\* ------------------------------------------------------------------ claims
RECURSIVE SumFrames(_)
SumFrames(segs) ==
    IF segs = << >> THEN 0 ELSE segs[1].frames + SumFrames(Tail(segs))

FrameOutOfRange(segs) ==
    \E k \in 1..Len(segs) :
        segs[k].frames < MIN_FRAMES \/ segs[k].frames > MAX_FRAMES_PER_SEGMENT

Running == pc \notin {"idle"}
AllProduced == produced = 1..Len(segments_data)

\* C1: a request whose total frame count exceeds MAX_TOTAL_FRAMES, or with a
\* segment whose frame count is outside [2,125], fails before any request is
\* sent to the render server: no submit, no poll.
C1_InvalidRequestMakesNoServerCall ==
    (Running /\ (SumFrames(segments_data) > MAX_TOTAL_FRAMES
                   \/ FrameOutOfRange(segments_data)))
        => (submits = 0 /\ polls = 0)

\* C2: when a run is over, TEMP_DIR holds no last_frame_* and no segment_*
\* file except the one file whose path was returned to the caller.
C2_ScratchCleanAfterRun ==
    pc = "done" =>
        \A p \in InDir(files, TEMP_DIR) :
            PrefixOf(p) \in {TEMP_FRAME_PREFIX, TEMP_VIDEO_PREFIX}
                => (result.kind = "ok" /\ p = result.path)

\* C3: a request of two or more segments whose steps all succeed calls
\* concatenate_videos exactly once, with the per-segment videos in the order
\* of the segments: element k of the list is the video rendered for segment k.
C3_StitchedOnceInOrder ==
    (pc = "done" /\ result.kind = "ok" /\ Len(segments_data) >= 2 /\ AllProduced)
        => /\ Len(concatLog) = 1
           /\ Len(concatLog[1].paths) = Len(segments_data)
           /\ \A k \in 1..Len(segments_data) : concatLog[1].contents[k] = Video(k)

\* C4: a request of exactly one segment whose render succeeds returns the
\* path of that segment's scratch video; concatenate_videos is not called,
\* no last frame is extracted, and the returned file exists on return.
C4_SingleSegmentReturnedUnstitched ==
    (pc = "done" /\ result.kind = "ok" /\ Len(segments_data) = 1)
        => /\ video_segments = <<result.path>>
           /\ DirOf(result.path) = TEMP_DIR
           /\ PrefixOf(result.path) = TEMP_VIDEO_PREFIX
           /\ concatLog = << >>
           /\ extractLog = << >>
           /\ Exists(files, result.path)
           /\ (1 \in produced => files[result.path] = Video(1))

C4_Witness ==
    /\ pc = "done" /\ result.kind = "ok" /\ Len(segments_data) = 1
    /\ 1 \in produced
    /\ preTemp # {}

\* C5: called with an empty segment list, the run fails having sent nothing
\* to the render server, created no file and deleted no file.
C5_EmptyRequestTouchesNothing ==
    (pc = "done" /\ Len(segments_data) = 0)
        => /\ result.kind = "error"
           /\ submits = 0 /\ polls = 0
           /\ removed = {}
           /\ DOMAIN files = preTemp

C7_FailureAbortsAndCleans ==
    failedAt # 0 =>
        /\ \A k \in 1..Len(submitLog) : submitLog[k].seg <= failedAt
        /\ concatLog = << >>
        /\ pc \in {"finally", "done"}
        /\ result.kind = "error"
        /\ (pc = "done" => cleaned)

C7_Witness ==
    /\ pc = "done" /\ failedAt = 1 /\ Len(segments_data) = 2
    /\ copied = {1}
    /\ result.error = "Could not read the last frame"

\* C8: the job of segment i+1 is submitted only after the job of segment i
\* was reported complete, its output copied to scratch and its last frame
\* extracted; never are two jobs of one request outstanding.
C8_SegmentsStrictlySequential ==
    /\ Cardinality(pending) <= 1
    /\ \A k \in 1..Len(submitLog) :
          LET s == submitLog[k].seg
          IN s > 1 =>
               /\ (s - 1) \in history
               /\ (s - 1) \in copied
               /\ \E e \in 1..Len(extractLog) : extractLog[e].seg = s - 1

C8_Witness ==
    /\ Len(submitLog) = 2
    /\ submitLog[2].seg = 2 /\ submitLog[2].accepted
    /\ pending = {2}

\* C9: segment 1 is rendered from the caller's image; every later segment is
\* rendered from the still cut from the last frame of the video of the
\* segment before it, a file in the server's input directory; no frame is
\* cut from the last segment.
C9_BridgeFrameFeedsNextSegment ==
    /\ \A k \in 1..Len(submitLog) :
          LET s == submitLog[k]
          IN IF s.seg = 1
             THEN s.image = InitialImage
             ELSE \E e \in 1..Len(extractLog) :
                     /\ extractLog[e].seg = s.seg - 1
                     /\ extractLog[e].video = video_segments[s.seg - 1]
                     /\ extractLog[e].frame = s.image
                     /\ extractLog[e].content = s.imageContent
                     /\ DirOf(s.image) = COMFYUI_INPUT_DIR
    /\ \A e \in 1..Len(extractLog) : extractLog[e].seg < Len(segments_data)

C9_Witness ==
    /\ Len(submitLog) = 2
    /\ submitLog[2].seg = 2
    /\ submitLog[2].imageContent = Video(1)

\* C10: the prompt of segment i is its own prompt when it has a non-empty
\* one, else the prompt used for segment i-1 (the initial prompt for the
\* first); a missing prompt leaves the segment's frame count as given.
RECURSIVE ExpectedPrompt(_, _)
ExpectedPrompt(segs, k) ==
    IF k = 0 THEN InitialPrompt
    ELSE IF segs[k].prompt # None /\ segs[k].prompt # ""
         THEN segs[k].prompt
         ELSE ExpectedPrompt(segs, k - 1)

C10_PromptInherited ==
    \A k \in 1..Len(submitLog) :
        /\ submitLog[k].prompt = ExpectedPrompt(segments_data, submitLog[k].seg)
        /\ submitLog[k].frames = segments_data[submitLog[k].seg].frames

C10_Witness ==
    /\ Len(submitLog) = 2
    /\ segments_data[1].prompt = "pA"
    /\ segments_data[2].prompt = ""
    /\ submitLog[2].prompt = "pA"
    /\ submitLog[2].frames = 125

\* C11 (SpecWait): a status request that fails in transport is retried at the
\* next poll; a call of wait_for_generation that does not return True has
\* failed with TimeoutError, after its timeout had run out.
C11_OnlyTimeoutFailsTheWait ==
    (wpc = "ended" /\ outcome # "True") =>
        (outcome = "TimeoutError" /\ WaitTimedOut)

C13_WaitEnds ==
    /\ (wpc = "poll") ~> (wpc = "ended")
    /\ [](wpolls <= (timeout \div POLL_INTERVAL) + 1)
    /\ []((wpc = "ended" /\ ~jobDone) => outcome \in {"TimeoutError", "ConnectionError"})

\* The job never appeared and the call ended with TimeoutError after several
\* polls.
C13_Witness ==
    /\ outcome = "TimeoutError"
    /\ ~jobDone
    /\ wpolls >= 2

\* C14 (Spec): the video generate_video_segment takes from the output
\* directory after a wait was written by the job it awaited; when that job
\* wrote nothing the step fails instead of taking an older file.
C14_LocatedVideoIsFromAwaitedJob ==
    pc = "copy" =>
        (prompt_id \in produced /\ outputDir[video_path] = Video(prompt_id))

C19_NoRetry ==
    /\ \A j, k \in 1..Len(submitLog) :
          j < k => submitLog[j].seg < submitLog[k].seg
    /\ submits = Len(submitLog)
    /\ submits <= Len(segments_data)
    /\ Len(concatLog) <= 1

\* The second segment's submission was rejected and the request is over: each
\* of the two segments was sent once.
C19_Witness ==
    /\ pc = "done"
    /\ result.error = "Failed to process image"
    /\ failedAt = 2
    /\ submits = 2

\* The spec's three classes of failure.
FailureClass(error) ==
    CASE error \in {"Failed to read image or workflow", "Failed to process image"}
            -> "never started"
      [] error = "TimeoutError" -> "never finished"
      [] error \in {"No output video found", "Could not read the last frame"}
            -> "finished but unusable"
      [] OTHER -> "other"

\* C20 (Spec): the type of the exception handed to the caller tells the
\* class of the failure: no exception of another class has the same type.
C20_ErrorTypeTellsTheClass ==
    (pc = "done" /\ result.kind = "error") =>
        \A e \in ErrorLabels :
            ErrorType(e) = ErrorType(result.error) =>
                FailureClass(e) = FailureClass(result.error)

\* C17 (SpecExt): when a call has returned a path, the file of that path
\* exists.
C17_ReturnedFileExists ==
    (pc = "done" /\ result.kind = "ok") => Exists(files, Canon(result.path))

\* C18 (SpecExt): from the start of generate_video_extension to its end,
\* whichever way it ends, the initial video the caller passed is not deleted.
C18_InitialVideoNeverDeleted ==
    pc # "idle" =>
        (Exists(files, Canon(video_segments[1]))
         /\ Canon(video_segments[1]) \notin removed)

\* C16 (SpecPair): two files written by different concurrent requests (a
\* per-segment video, a bridge frame, a stitched output) never have the same
\* path.
C16_ConcurrentArtifactsDistinct ==
    \A w1, w2 \in pwrites : w1[2] # w2[2] => w1[1] # w2[1]

\* C28 (SpecExt): in generate_video_extension a segment after the first
\* whose prompt is missing or empty is rendered with the previous segment's
\* prompt: the request does not fail on it for want of a prompt.
C28_ExtensionPromptInherited ==
    \A k \in 2..Len(segments_data) :
        (segments_data[k].prompt \in {None, ""} /\ failedAt = k)
            => result.error # "Prompt is required"

\* C21 (SpecSub): when POST /prompt is answered with a status other than 200,
\* process_image_to_video raises an error that carries the status code and
\* the body of the answer, hands back no job id, and the caller never starts
\* the wait for that segment.
C21_RejectedSubmissionFails ==
    (spc \in {"returned", "ended"} /\ post.kind = "answer" /\ post.status # 200) =>
        /\ sret.kind = "error"
        /\ sret.status = post.status
        /\ sret.text = post.text
        /\ sret.prompt_id = None
        /\ ~waited

\* The server answered 500 with a body, and the call is over.
C21_Witness ==
    /\ spc = "ended"
    /\ post.kind = "answer"
    /\ post.status = 500
    /\ post.text # ""
    /\ sret.kind = "error"

\* Every occurrence of the prompt, frame-count and image sentinels replaced,
\* items of sequences included; the size sentinels replaced under width and
\* height keys.
RECURSIVE ReplaceEverywhere(_, _, _)
ReplaceEverywhere(obj, key, p) ==
    IF obj[1] = "dict"
    THEN Dict([k \in DOMAIN obj[2] |-> ReplaceEverywhere(obj[2][k], k, p)])
    ELSE IF obj[1] = "list"
    THEN List([j \in 1..Len(obj[2]) |-> ReplaceEverywhere(obj[2][j], "", p)])
    ELSE IF IsPromptSentinel(obj) THEN Str(p.prompt)
    ELSE IF IsSizeSentinel(obj)
         THEN IF EndsWithWidth(key) THEN Num(p.size.width)
              ELSE IF EndsWithHeight(key) THEN Num(p.size.height)
              ELSE obj
    ELSE IF IsFramesSentinel(obj) THEN Num(p.n_frames)
    ELSE IF IsImageSentinel(obj) THEN Str(p.image)
    ELSE obj

\* C24 (SpecSub): the materialized workflow is the template with every
\* occurrence of every sentinel replaced, wherever it stands: as a value of a
\* mapping or as an item of a sequence, at any depth.
C24_EverySentinelReplaced ==
    spc \in {"post", "returned", "ended"} =>
        workflow = ReplaceEverywhere(template, "", params)

\* C25 (SpecSub): materializing a materialized workflow again with the same
\* parameters changes nothing.
C25_MaterializeIdempotent ==
    spc \in {"post", "returned", "ended"} =>
        update_workflow_params(workflow, params) = workflow

\* C22 (SpecLatest): get_latest_video returns the most recently modified
\* .mp4 among those of the output root and of the YYYY-MM-DD directory of the
\* day the job ran, and None when neither holds one.
C22_LatestOfRunDayAndRoot ==
    (ret.kind # "unset" /\ call.fn = "get_latest_video") =>
        LET found == GlobMp4(call.listing, call.day) \cup GlobMp4(call.listing, OutputRoot)
        IN  IF found = {} THEN ret.kind = "None"
            ELSE ret.kind = "value" /\ ret.value \in Latest(found)

\* C23 (SpecLastFrame): for a video with at least one frame that decodes,
\* extract_last_frame writes the last such frame, whatever frame count the
\* container reports: when the seeks by that count yield nothing it decodes
\* the video from its start.
C23_LastDecodableFrame ==
    (ret.kind # "unset" /\ call.fn = "extract_last_frame" /\ call.state = "video"
        /\ call.frames >= 1 /\ call.writable) =>
            ret.kind = "value" /\ ret.value = call.frames

\* No path of the call is missing on disk.
AllExistOnDisk == \A k \in 1..Len(video_paths) : disk[video_paths[k]].state # "missing"

\* The number of frames the first k inputs hold.
RECURSIVE SumOfCounts(_)
SumOfCounts(k) == IF k = 0 THEN 0 ELSE SumOfCounts(k - 1) + disk[video_paths[k]].count

\* C26 (SpecConcat): given fewer than 2 paths, or a path that does not
\* exist, concatenate_videos fails, and the output file is never created and
\* no frame is ever written.
C26_BadInputFailsBeforeOutput ==
    (cpc # "idle" /\ (Len(video_paths) < 2 \/ ~AllExistOnDisk)) =>
        /\ ~output.created
        /\ output.frames = << >>
        /\ cpc = "done" => (cret.kind = "raised"
                            /\ cret.type \in {"ValueError", "FileNotFoundError"})

\* A call with three paths, the last of them missing, has failed.
C26_Witness ==
    /\ cpc = "done"
    /\ Len(video_paths) = 3
    /\ disk[video_paths[1]].state = "video"
    /\ disk[video_paths[2]].state = "video"
    /\ disk[video_paths[3]].state = "missing"
    /\ cret = Raised("FileNotFoundError")

\* C27 (SpecConcat): when concatenate_videos returns True, the output holds
\* every frame of every input, the inputs in list order and each input's
\* frames in their own order, nothing dropped or repeated, every frame at the
\* first video's width and height.
C27_AllFramesInOrder ==
    (cpc = "done" /\ cret.kind = "value") =>
        /\ Len(output.frames) = SumOfCounts(Len(video_paths))
        /\ \A k \in 1..Len(video_paths) :
             \A n \in 1..disk[video_paths[k]].count :
               LET f == output.frames[SumOfCounts(k - 1) + n]
               IN  /\ f.src = video_paths[k]
                   /\ f.n = n
                   /\ f.width = disk[video_paths[1]].width
                   /\ f.height = disk[video_paths[1]].height

\* Three videos of two sizes were joined.
C27_Witness ==
    /\ cpc = "done"
    /\ cret = Returned(TRUE)
    /\ Len(video_paths) = 3
    /\ disk[video_paths[1]].width # disk[video_paths[2]].width
    /\ disk[video_paths[2]].count = 2
    /\ disk[video_paths[3]].count = 1
    /\ Len(output.frames) >= 4

\* The non-blank lines of the caption given to the parser, as typed.
NonBlankLines == SelectSeq(Split(call.text), LAMBDA l : \E k \in 1..Len(l) : l[k] # " ")

\* The frame counts of the first k pairs of those lines, added up.
RECURSIVE TotalOfPairs(_)
TotalOfPairs(k) == IF k = 0 THEN 0 ELSE TotalOfPairs(k - 1) + IntOf(NonBlankLines[2 * k])

\* The caption is a non-empty even number of non-blank lines, every second
\* one an integer in [2,125], the running total never above 10000.
WellFormedCaption ==
    /\ Len(NonBlankLines) > 0
    /\ Len(NonBlankLines) % 2 = 0
    /\ \A k \in 1..(Len(NonBlankLines) \div 2) :
         /\ IsInt(NonBlankLines[2 * k])
         /\ IntOf(NonBlankLines[2 * k]) >= 2
         /\ IntOf(NonBlankLines[2 * k]) <= 125
    /\ \A k \in 1..(Len(NonBlankLines) \div 2) :
         (\A j \in 1..k : IsInt(NonBlankLines[2 * j])) => TotalOfPairs(k) <= 10000

\* C30 (SpecParse): parse_multi_prompt_message returns a list only for a
\* caption of a non-empty even number of non-blank lines that form (prompt,
\* frames) pairs with every frame count an integer in [2,125] and the running
\* total at most 10000, and None for every other caption; the list holds the
\* pairs in the order of the message.
C30_ParsesOnlyWellFormedPairs ==
    (ret.kind # "unset" /\ call.fn = "parse_multi_prompt_message") =>
        /\ ret.kind = "value" => WellFormedCaption
        /\ ~WellFormedCaption => ret.kind = "None"
        /\ ret.kind = "value" =>
             /\ Len(ret.value) = Len(NonBlankLines) \div 2
             /\ \A k \in 1..Len(ret.value) :
                  /\ ret.value[k][1] = Strip(NonBlankLines[2 * k - 1])
                  /\ ret.value[k][2] = IntOf(NonBlankLines[2 * k])

\* A caption with a blank line and padded lines was parsed into two pairs,
\* the second of 125 frames.
C30_Witness ==
    /\ call.fn = "parse_multi_prompt_message"
    /\ ret.kind = "value"
    /\ Len(ret.value) = 2
    /\ ret.value[1] = <<<<"b">>, 2>>
    /\ ret.value[2] = <<<<"a">>, 125>>
    /\ Len(Split(call.text)) = 4

\* C29 (SpecChat): whenever the collector calls process_long_video, the
\* segment list it hands over is not empty, every segment's frame count is in
\* [2,125], and the frame counts add up to at most MAX_TOTAL_FRAMES.
C29_HandedListWithinLimits ==
    handed.called =>
        /\ handed.segments # << >>
        /\ \A k \in 1..Len(handed.segments) :
             handed.segments[k].frames >= 2 /\ handed.segments[k].frames <= 125
        /\ SumFrames(handed.segments) <= 10000

\* C31 (SpecDims): the target size depends on the image's width and height
\* only: 720x1280 when height > width, 1280x720 when width >= height.
C31_SizeFromDimensionsOnly ==
    (ret.kind # "unset" /\ call.fn = "get_image_dimensions") =>
        /\ ret.kind = "value"
        /\ call.height > call.width => ret.value = [width |-> 720, height |-> 1280]
        /\ call.width >= call.height => ret.value = [width |-> 1280, height |-> 720]

\* A square image was given the horizontal size.
C31_Witness ==
    /\ call.fn = "get_image_dimensions"
    /\ call.width = call.height
    /\ ret.kind = "value"
    /\ ret.value.width = 1280

\* C39 (SpecChat): in the interactive long-video flow, after every handled
\* message the user's total_frames is the sum of the frames of the user's
\* segments.
C39_TotalIsSumOfSegments ==
    \A u \in Users :
        ({"total_frames", "segments"} \subseteq DOMAIN USER_DATA[u]) =>
            USER_DATA[u]["total_frames"] = SumFrames(USER_DATA[u]["segments"])

\* Three segments were collected, the first of the default length.
C39_Witness ==
    /\ WAITING_FOR[Member] = "segment_prompt"
    /\ {"total_frames", "segments"} \subseteq DOMAIN USER_DATA[Member]
    /\ Len(USER_DATA[Member]["segments"]) = 3
    /\ USER_DATA[Member]["segments"][3].frames = 125
    /\ USER_DATA[Member]["total_frames"] = 325

\* C40 (SpecChat): handling a message of a sender who is not in the
\* whitelist leaves WAITING_FOR and USER_DATA as they were, downloads nothing
\* and starts no render, whatever the message is.
C40_StrangerChangesNothing ==
    [][sender' \notin ID_WHITELIST =>
          /\ WAITING_FOR' = WAITING_FOR
          /\ USER_DATA' = USER_DATA
          /\ ~downloaded'
          /\ ~handed'.called]_vars

\* The stranger wrote while the member was in the middle of the flow.
C40_Witness ==
    /\ sender = Stranger
    /\ WAITING_FOR[Member] = "segment_prompt"
    /\ WAITING_FOR[Stranger] = None
    /\ USER_DATA[Stranger] = << >>

\* C32 (SpecAdapt): a user never has two content-creation tasks in flight,
\* however the handlers of the user's '/ai create' commands interleave.
C32_OneTaskInFlight ==
    \A t1, t2 \in Handlers : (InFlight(t1) /\ InFlight(t2)) => t1 = t2

\* C38 (SpecAdapt): once the user's task has ended - completed, failed,
\* returned for want of a plan, or cancelled - and no other is in flight, the
\* user's status is not 'creating' and the user has no entry in
\* ADAPTIVE_AGENT_TASKS.
C38_EndedTaskLeavesNoTrace ==
    ((\E t \in Handlers : done(t))
        /\ (\A t \in Handlers : ~InFlight(t))
        /\ (\A h \in Handlers : hpc[h] # "respond")) =>
            /\ ADAPTIVE_AGENT_STATE # "creating"
            /\ ADAPTIVE_AGENT_TASKS = None

\* C37 (SpecShort): the input image of process_short_video is not removed
\* before the render job that reads it is complete.
C37_ImageOutlivesJob ==
    (sret.kind = "ok" /\ input_image = "removed") => job_complete

\* C36 (SpecExt): generate_video_extension with n >= 1 segments that all
\* succeed calls concatenate_videos once with the initial video followed by
\* the videos rendered for segments 1..n in that order, and segment k is
\* rendered from the last frame of the video before it in that list; with no
\* segment it returns the initial video's path with no render and no stitch.
C36_ExtensionStitchedInOrder ==
    (pc = "done" /\ result.kind = "ok") =>
        IF Len(segments_data) = 0
        THEN /\ result.path = video_segments[1]
             /\ submits = 0
             /\ concatLog = << >>
        ELSE AllProduced =>
             /\ Len(concatLog) = 1
             /\ concatLog[1].paths = video_segments
             /\ Len(video_segments) = Len(segments_data) + 1
             /\ \A k \in 1..Len(segments_data) :
                   /\ concatLog[1].contents[k + 1] = Video(k)
                   /\ extractLog[k].seg = k
                   /\ extractLog[k].video = Canon(video_segments[k])
                   /\ submitLog[k].image = extractLog[k].frame
                   /\ submitLog[k].imageContent =
                        (IF k = 1 THEN Stale ELSE Video(k - 1))

\* C35 (SpecStuck): what reaches the caller of generate_long_video is what
\* the try block returned or raised: a file the cleanup phase cannot remove
\* neither replaces the error of the failed step nor fails a successful run.
C35_CleanupKeepsOutcome ==
    [][(pc = "finally" /\ pc' = "done") => result' = result]_vars

\* A failed run is back at the caller while a bridge frame or an old
\* per-segment video that the cleanup tried to remove is still there.
C35_Witness ==
    /\ pc = "done" /\ cleaned
    /\ result.kind = "error"
    /\ result.error \in ErrorLabels
    /\ \E p \in DOMAIN files :
          \/ p \in SeqToSet(temp_files_to_cleanup)
          \/ p \in CleanupVictims(files, KeepFiles(video_segments))

\* C33 (SpecPair): the video a request copies into scratch for its segment
\* i is the output of the job that this request submitted for segment i,
\* never the output of a job of the other request.
C33_CopiedVideoIsOwnJobs ==
    \A r \in Tasks : \A k \in 1..Len(pcopied[r]) : pcopied[r][k] = <<r, k>>

\* C34 (SpecPair): the cleanup phase of a request removes only files that
\* this request wrote: no per-segment video or bridge frame of the other
\* request while that one is still running, and not its returned file.
C34_CleanupRemovesOwnFilesOnly ==
    [][\A x \in DOMAIN pfiles \ DOMAIN pfiles' :
          \E r \in Tasks : ppc[r] = "run" /\ ppc'[r] = "done" /\ pfiles[x] = r]_vars

====
